---- MODULE Spec2Model ----
(***************************************************************************)
(* Temporal motion-blur accumulation engine of revideo:                    *)
(*   - resolveMotionBlurConfig and its helpers   (core/src/types/MotionBlur)*)
(*   - Stage: accumulation buffer and renderWithMotionBlur (core/src/app)  *)
(*   - calculateSubframeOffsets, calculateSubframeWeights, in floating     *)
(*     point with a rounding after every operation                         *)
(*   - PlaybackStatus and its sub-frame time offset                        *)
(*                                                                         *)
(* Numbers of a motion-blur configuration are fixed-point values counted   *)
(* in halves (Num(3) is 3, Num(2) + 1 is 2.5), which represents every      *)
(* value the configurations below produce exactly.                         *)
(***************************************************************************)
EXTENDS Integers, Sequences, FiniteSets, TLC

VARIABLES
    \* ---- resolveMotionBlurConfig under test
    given,       \* TRUE when an options object is passed, FALSE for undefined
    options,     \* the MotionBlurOptions; a field is {} (absent) or {value}
    config,      \* resolveMotionBlurConfig(options)
    config2,     \* resolveMotionBlurConfig(config)
    cstep,       \* "input" | "resolved" | "reresolved"
    \* ---- Stage
    size,                \* Stage.size, a Vector2 <<width, height>>
    resolutionScale,     \* Stage.resolutionScale
    colorSpace,          \* Stage.colorSpace
    background,          \* Stage.background: {} (null) or {string}
    motionBlurConfig,    \* Stage.motionBlurConfig
    accumulationBuffer,  \* {} (null) or {Float32Array as a sequence}
    accumulationSamples, \* Stage.accumulationSamples
    pixels,              \* RGBA bytes of the visible render target (finalBuffer)
    \* ---- renderWithMotionBlur calls in flight, one per caller
    pc,          \* "idle" | "await" (suspended in `await renderCallback`) |
                 \* "drawn" (still suspended, the callback has rendered)
    args,        \* [offsets, weights] of the call
    idx,         \* loop variable i, counted from 1
    log,         \* what the call has done so far, in order
    clean,       \* no resize and no foreign accumulation operation since begin
    exact,       \* per channel: sum of weights[i] * p_i in exact arithmetic
    facc,        \* per channel: the same sum accumulated in Float32 precision
    prior,       \* how the last renderWithMotionBlur cycle before the current
                 \* one ended: "none" | "finalized" | "abandoned" | "resized",
                 \* or "untracked" where the history of cycles is not recorded
    \* ---- PlaybackStatus
    playback,            \* the PlaybackManager behind the PlaybackStatus
    subframeOffsetValue, \* PlaybackStatus.subframeOffsetValue
    status,              \* what the getters of PlaybackStatus last returned
    \* ---- calculateSubframeOffsets / calculateSubframeWeights under test
    frameDuration,       \* the frameDuration argument
    subframeOffsets,     \* calculateSubframeOffsets(config, frameDuration)
    subframeWeights,     \* calculateSubframeWeights(config)
    adaptive,            \* the last call of calculateAdaptiveSamples
    description,         \* {} or {describeMotionBlurConfig(config)}
    \* ---- validateRenderRequest under test
    validation,          \* the request body and {} or {the ValidationResult}
    op           \* the operation that produced the current state

cvars == <<given, options, config, config2, cstep>>

stagevars ==
    <<size, resolutionScale, colorSpace, background, motionBlurConfig,
      accumulationBuffer, accumulationSamples, pixels>>

callvars == <<pc, args, idx, log, clean, exact, facc, prior>>

pbvars == <<playback, subframeOffsetValue, status>>

planvars == <<frameDuration, subframeOffsets, subframeWeights>>

fnvars == <<adaptive, description, validation>>

sfvars == <<planvars, fnvars>>

\* Everything outside the Stage and its calls.
libvars == <<cvars, pbvars, sfvars>>

vars == <<libvars, stagevars, callvars, op>>

-----------------------------------------------------------------------------
(* Numbers in halves.                                                      *)

Num(x) == 2 * x

Min(a, b) == IF a < b THEN a ELSE b

Max(a, b) == IF a > b THEN a ELSE b

\* Math.round on a number in halves: nearest integer, ties toward +infinity.
MathRound(x) == Num((x + 1) \div 2)

IsInteger(x) == x % 2 = 0

\* An optional field: {} when absent, {v} when present.
Has(f) == f # {}

Val(f) == CHOOSE v \in f : TRUE

\* a ?? b
Coalesce(f, d) == IF Has(f) THEN Val(f) ELSE d

\* !x for an optional number: undefined and 0 are falsy.
FalsyNum(f) == ~Has(f) \/ Val(f) = 0

-----------------------------------------------------------------------------
(* MotionBlur.ts                                                           *)

QUALITY_SAMPLES ==
    [low |-> Num(4), medium |-> Num(8), high |-> Num(16), ultra |-> Num(32)]

DEFAULT_MOTION_BLUR_CONFIG ==
    [enabled |-> FALSE,
     samples |-> Num(8),
     shutterAngle |-> Num(180),
     shutterCurve |-> "box",
     shutterPosition |-> "center",
     adaptiveSampling |-> FALSE,
     adaptiveMinSamples |-> Num(2),
     shutterPhase |-> Num(-90)]

\* Mutation of calculatePhaseFromPosition: 'end' treated like 'center'.
calculatePhaseFromPosition_EndAsCenter(position, shutterAngle) ==
    CASE position = "center" -> (-shutterAngle) \div 2
      [] position = "start" -> 0
      [] position = "end" -> (-shutterAngle) \div 2

calculatePhaseFromPosition(position, shutterAngle) ==
    CASE position = "center" -> (-shutterAngle) \div 2
      [] position = "start" -> 0
      [] position = "end" -> -shutterAngle

clampSamples(samples) == Max(Num(1), Min(Num(64), MathRound(samples)))

clampShutterAngle(angle) == Max(0, Min(Num(720), angle))

clampShutterPhase(phase) == Max(Num(-360), Min(Num(360), phase))

\* let samples = options.samples ?? DEFAULT; if (options.quality && !options.samples) ...
resolveSamples(o) ==
    IF Has(o.quality) /\ FalsyNum(o.samples)
    THEN QUALITY_SAMPLES[Val(o.quality)]
    ELSE Coalesce(o.samples, DEFAULT_MOTION_BLUR_CONFIG.samples)

\* let shutterPhase = options.shutterPhase ?? DEFAULT;
\* if (options.shutterPosition && !options.shutterPhase) ...
resolveShutterPhase(o) ==
    IF Has(o.shutterPosition) /\ FalsyNum(o.shutterPhase)
    THEN calculatePhaseFromPosition(
             Val(o.shutterPosition),
             Coalesce(o.shutterAngle, DEFAULT_MOTION_BLUR_CONFIG.shutterAngle))
    ELSE Coalesce(o.shutterPhase, DEFAULT_MOTION_BLUR_CONFIG.shutterPhase)

resolveMotionBlurConfig(isGiven, o) ==
    IF ~isGiven
    THEN DEFAULT_MOTION_BLUR_CONFIG
    ELSE [enabled |-> Coalesce(o.enabled, DEFAULT_MOTION_BLUR_CONFIG.enabled),
          samples |-> clampSamples(resolveSamples(o)),
          shutterAngle |->
              clampShutterAngle(
                  Coalesce(o.shutterAngle, DEFAULT_MOTION_BLUR_CONFIG.shutterAngle)),
          shutterCurve |->
              Coalesce(o.shutterCurve, DEFAULT_MOTION_BLUR_CONFIG.shutterCurve),
          shutterPosition |->
              Coalesce(o.shutterPosition, DEFAULT_MOTION_BLUR_CONFIG.shutterPosition),
          adaptiveSampling |->
              Coalesce(o.adaptiveSampling, DEFAULT_MOTION_BLUR_CONFIG.adaptiveSampling),
          adaptiveMinSamples |->
              Max(Num(1),
                  Coalesce(o.adaptiveMinSamples,
                           DEFAULT_MOTION_BLUR_CONFIG.adaptiveMinSamples)),
          shutterPhase |-> clampShutterPhase(resolveShutterPhase(o))]

\* A resolved MotionBlurConfig passed back in as options: every field present,
\* no quality.
AsOptions(c) ==
    [enabled |-> {c.enabled},
     samples |-> {c.samples},
     quality |-> {},
     shutterAngle |-> {c.shutterAngle},
     shutterCurve |-> {c.shutterCurve},
     shutterPosition |-> {c.shutterPosition},
     adaptiveSampling |-> {c.adaptiveSampling},
     adaptiveMinSamples |-> {c.adaptiveMinSamples},
     shutterPhase |-> {c.shutterPhase}]

NoOptions ==
    [enabled |-> {}, samples |-> {}, quality |-> {}, shutterAngle |-> {},
     shutterCurve |-> {}, shutterPosition |-> {}, adaptiveSampling |-> {},
     adaptiveMinSamples |-> {}, shutterPhase |-> {}]

\* The partial options the resolver is exercised on: every field absent or
\* present, numbers below, inside and above their range, zero, and fractions.
SamplesInputs == {{}, {0}, {Num(2) + 1}, {Num(10)}, {Num(100)}, {Num(-5)}}

QualityInputs == {{}, {"low"}, {"medium"}, {"high"}, {"ultra"}}

AngleInputs == {{}, {0}, {Num(-10)}, {Num(270)}, {Num(800)}}

PhaseInputs == {{}, {0}, {Num(-135)}, {Num(400)}, {Num(-400)}}

PositionInputs == {{}, {"center"}, {"start"}, {"end"}}

MinSamplesInputs == {{}, {0}, {Num(2) + 1}, {Num(4)}}

OptionInputs ==
    [enabled : {{}, {TRUE}},
     samples : SamplesInputs,
     quality : QualityInputs,
     shutterAngle : AngleInputs,
     shutterCurve : {{}, {"gaussian"}},
     shutterPosition : PositionInputs,
     adaptiveSampling : {{}},
     adaptiveMinSamples : MinSamplesInputs,
     shutterPhase : PhaseInputs]

-----------------------------------------------------------------------------
(* Float32Array arithmetic.  An accumulator entry is an integer count of   *)
(* 2^-17, so One is 1.0.  Every weight below is a multiple of 2^-17 and    *)
(* every sum stays below 2^14, hence `acc + pixel * weight` is exact in    *)
(* double precision and the only rounding is the store into the            *)
(* Float32Array (24 significant bits, round to nearest, ties to even).     *)

One == 2^17

Abs(n) == IF n < 0 THEN -n ELSE n

\* Math.fround: the value a Float32Array element holds after `a[i] = n`.
Fround(n) ==
    IF Abs(n) < 2^24 THEN n
    ELSE LET m == Abs(n)
             q == CHOOSE q \in {2^e : e \in 1..7} : 2^23 * q <= m /\ m < 2^24 * q
             lo == (m \div q) * q
             r == m - lo
             up == \/ 2 * r > q
                   \/ 2 * r = q /\ (m \div q) % 2 = 1
             v == IF up THEN lo + q ELSE lo
         IN  IF n < 0 THEN -v ELSE v

\* Mutation of the conversion to 8 bits: truncation instead of rounding.
ToPixel_Truncated(v) == Max(0, Min(255 * One, v)) \div One

\* Math.round(Math.min(255, Math.max(0, v))) stored in a Uint8ClampedArray.
ToPixel(v) == (Max(0, Min(255 * One, v)) + One \div 2) \div One

Zeros(n) == [i \in 1..n |-> 0]

-----------------------------------------------------------------------------
(* JavaScript numbers in the sub-frame calculations: binary floating point *)
(* with round-to-nearest, ties-to-even, after every operation.  A number   *)
(* is <<m, e>>, standing for m * 2^e, with m = 0 (and e = 0) or            *)
(* 2^(Precision-1) <= |m| < 2^Precision.  The exponent is unbounded: none  *)
(* of the calculations overflows or underflows.                            *)

\* Bits of the significand (53 in an IEEE-754 double).
Precision == 12

Pow2(k) == 2^k

Sgn(n) == IF n < 0 THEN -1 ELSE IF n > 0 THEN 1 ELSE 0

\* The number of binary digits of n >= 0.
RECURSIVE BitLength(_)
BitLength(n) == IF n = 0 THEN 0 ELSE 1 + BitLength(n \div 2)

\* m * 2^e rounded to the nearest number of the format, ties to even.
Nearest(m, e) ==
    IF m = 0 THEN <<0, 0>>
    ELSE LET a == Abs(m)
             k == BitLength(a) - Precision
         IN  IF k <= 0
             THEN <<m * Pow2(-k), e + k>>
             ELSE LET q == a \div Pow2(k)
                      r == a % Pow2(k)
                      half == Pow2(k - 1)
                      up == r > half \/ (r = half /\ q % 2 = 1)
                      v == IF up THEN q + 1 ELSE q
                  IN  IF v = Pow2(Precision)
                      THEN <<Sgn(m) * Pow2(Precision - 1), e + k + 1>>
                      ELSE <<Sgn(m) * v, e + k>>

\* An integer, and a number counted in halves, as a JS number.
FInt(n) == Nearest(n, 0)

FHalves(x) == Nearest(x, -1)

FNeg(a) == <<-a[1], a[2]>>

FAbs(a) == <<Abs(a[1]), a[2]>>

\* a * b
FMul(a, b) == Nearest(a[1] * b[1], a[2] + b[2])

\* a + b: the exact sum, rounded. An operand more than Precision + 2 binary
\* places below the other only decides the direction of rounding.
FAdd(a, b) ==
    IF a[1] = 0 THEN b
    ELSE IF b[1] = 0 THEN a
    ELSE LET hi == IF a[2] >= b[2] THEN a ELSE b
             lo == IF a[2] >= b[2] THEN b ELSE a
             d == hi[2] - lo[2]
         IN  IF d > Precision + 2
             THEN Nearest(hi[1] * Pow2(Precision + 2) + Sgn(lo[1]),
                         hi[2] - (Precision + 2))
             ELSE Nearest(hi[1] * Pow2(d) + lo[1], lo[2])

\* a - b
FSub(a, b) == FAdd(a, FNeg(b))

\* a / b for b # 0: Precision + 2 quotient bits and a sticky bit, rounded.
FDiv(a, b) ==
    IF a[1] = 0 THEN <<0, 0>>
    ELSE LET n == Abs(a[1]) * Pow2(Precision + 2)
             q == n \div Abs(b[1])
             sticky == IF n % Abs(b[1]) = 0 THEN 0 ELSE 1
         IN  Nearest(Sgn(a[1]) * Sgn(b[1]) * (2 * q + sticky),
                    a[2] - b[2] - (Precision + 2) - 1)

\* a < b and a <= b
FLess(a, b) == FSub(a, b)[1] < 0

FLeq(a, b) == FSub(a, b)[1] <= 0

\* Math.exp for arguments in [-2, 0], the range the Gaussian curve uses: the
\* Taylor polynomial of e^(-t) evaluated in fixed point (units of 2^-24), then
\* rounded to the format. Math.exp(-0) is exactly 1.
ExpUnit == Pow2(24)

ExpTerms == 16

\* a * b / ExpUnit for fixed-point a, b below 2^26, without overflow.
MulFix(a, b) ==
    LET ah == a \div Pow2(12)
        al == a % Pow2(12)
        bh == b \div Pow2(12)
        bl == b % Pow2(12)
    IN  ah * bh + (ah * bl + al * bh) \div Pow2(12)

\* |a| in units of 2^-24, for |a| <= 2.
ToFix(a) ==
    IF a[2] + 24 >= 0 THEN Abs(a[1]) * Pow2(a[2] + 24)
    ELSE Abs(a[1]) \div Pow2(-(a[2] + 24))

\* sum over k >= j of (-t)^k / k!, given term = t^(j-1) / (j-1)!
RECURSIVE ExpSeries(_, _, _)
ExpSeries(t, term, j) ==
    IF j > ExpTerms \/ term = 0 THEN 0
    ELSE LET next == MulFix(term, t) \div j
         IN  (IF j % 2 = 1 THEN -next ELSE next) + ExpSeries(t, next, j + 1)

MathExp(a) ==
    LET t == ToFix(a)
    IN  Nearest(ExpUnit + ExpSeries(t, ExpUnit, 1), -24)

-----------------------------------------------------------------------------
(* MotionBlur.ts: sub-frame offsets and weights.                           *)

\* config.samples, an integer after clampSamples, as a loop bound.
SampleCount(c) == c.samples \div 2

\* calculateSubframeOffsets: timeOffset of sample i (0-based).
\* Mutation of timeOffset: the exposure window starts at phaseOffset.
timeOffset_FromPhase(c, fd, i) ==
    LET samples == SampleCount(c)
        shutterFraction == FDiv(FHalves(c.shutterAngle), FInt(360))
        exposureTime == FMul(fd, shutterFraction)
        phaseOffset == FMul(FDiv(FHalves(c.shutterPhase), FInt(360)), fd)
        samplePosition == IF samples = 1 THEN FHalves(1)
                          ELSE FDiv(FInt(i), FInt(samples - 1))
    IN  FAdd(phaseOffset, FMul(samplePosition, exposureTime))

timeOffset(c, fd, i) ==
    LET samples == SampleCount(c)
        shutterFraction == FDiv(FHalves(c.shutterAngle), FInt(360))
        exposureTime == FMul(fd, shutterFraction)
        phaseOffset == FMul(FDiv(FHalves(c.shutterPhase), FInt(360)), fd)
        samplePosition == IF samples = 1 THEN FHalves(1)
                          ELSE FDiv(FInt(i), FInt(samples - 1))
    IN  FSub(FAdd(phaseOffset, FMul(samplePosition, exposureTime)),
             FDiv(exposureTime, FInt(2)))

calculateSubframeOffsets(c, fd) ==
    [k \in 1..SampleCount(c) |-> timeOffset(c, fd, k - 1)]

calculateBoxWeights(samples) == [k \in 1..samples |-> FInt(1)]

\* Mutation of calculateTriangleWeights: the distance is taken from index 0.
calculateTriangleWeights_FromStart(samples) ==
    [k \in 1..samples |->
        LET distance == FDiv(FAbs(FInt(k - 1)), FDiv(FInt(samples), FInt(2)))
        IN  FSub(FInt(1), distance)]

calculateTriangleWeights(samples) ==
    LET center == FDiv(FInt(samples - 1), FInt(2))
    IN  [k \in 1..samples |->
            LET distance == FDiv(FAbs(FSub(FInt(k - 1), center)),
                                 FDiv(FInt(samples), FInt(2)))
            IN  FSub(FInt(1), distance)]

calculateGaussianWeights(samples) ==
    LET center == FDiv(FInt(samples - 1), FInt(2))
        sigma == FDiv(FInt(samples), FInt(4))
    IN  [k \in 1..samples |->
            LET x == FSub(FInt(k - 1), center)
            IN  MathExp(FDiv(FNeg(FMul(x, x)),
                             FMul(FMul(FInt(2), sigma), sigma)))]

\* weights.reduce((a, b) => a + b, 0)
RECURSIVE SumOf(_, _)
SumOf(w, n) == IF n = 0 THEN FInt(0) ELSE FAdd(SumOf(w, n - 1), w[n])

\* Mutation of calculateSubframeWeights: the weights are not normalised.
calculateSubframeWeights_Unnormalised(c) ==
    LET samples == SampleCount(c)
    IN  CASE c.shutterCurve = "triangle" -> calculateTriangleWeights(samples)
          [] c.shutterCurve = "gaussian" -> calculateGaussianWeights(samples)
          [] OTHER -> calculateBoxWeights(samples)

calculateSubframeWeights(c) ==
    LET samples == SampleCount(c)
        w == CASE c.shutterCurve = "triangle" -> calculateTriangleWeights(samples)
               [] c.shutterCurve = "gaussian" -> calculateGaussianWeights(samples)
               [] OTHER -> calculateBoxWeights(samples)
        sum == SumOf(w, samples)
    IN  [k \in 1..samples |-> FDiv(w[k], sum)]

\* Math.min and Math.round on numbers of the format; Math.round gives an
\* integer: floor(x + 1/2).
FMin(a, b) == IF FLeq(a, b) THEN a ELSE b

FMathRound(a) ==
    IF a[2] >= 0 THEN a[1] * Pow2(a[2])
    ELSE IF -a[2] > Precision + 1 THEN 0
    ELSE (a[1] + Pow2(-a[2] - 1)) \div Pow2(-a[2])

\* calculateAdaptiveSamples(config, velocity, threshold), for threshold > 0.
\* The result is counted in halves, like the fields of the configuration.
calculateAdaptiveSamples(c, velocity, threshold) ==
    IF ~c.adaptiveSampling THEN c.samples
    ELSE LET scale == FMin(FInt(1), FDiv(velocity, threshold))
             adaptedSamples ==
                 FMathRound(
                     FAdd(FHalves(c.adaptiveMinSamples),
                          FMul(FSub(FHalves(c.samples),
                                    FHalves(c.adaptiveMinSamples)),
                               scale)))
         IN  Max(c.adaptiveMinSamples, Num(adaptedSamples))

\* String(x) of a number held in halves: "16", "2.5", "-10".
NumberToString(h) ==
    LET a == IF h < 0 THEN -h ELSE h
    IN  (IF h < 0 THEN "-" ELSE "")
            \o ToString(a \div 2)
            \o (IF a % 2 = 1 THEN ".5" ELSE "")

\* parts.filter(Boolean): the entries that are not null ({}).
RECURSIVE FilterBoolean(_)
FilterBoolean(parts) ==
    IF parts = <<>> THEN <<>>
    ELSE (IF Has(Head(parts)) THEN <<Val(Head(parts))>> ELSE <<>>)
             \o FilterBoolean(Tail(parts))

\* parts.join(separator)
RECURSIVE Join(_, _)
Join(parts, separator) ==
    IF parts = <<>> THEN ""
    ELSE IF Len(parts) = 1 THEN parts[1]
    ELSE parts[1] \o separator \o Join(Tail(parts), separator)

describeMotionBlurConfig(c) ==
    IF ~c.enabled THEN "Motion blur disabled"
    ELSE "Motion blur: "
             \o Join(FilterBoolean(
                         <<{NumberToString(c.samples) \o " samples"},
                           {NumberToString(c.shutterAngle) \o "° shutter"},
                           IF c.shutterCurve # "box"
                           THEN {c.shutterCurve \o " curve"} ELSE {},
                           IF c.shutterPosition # "center"
                           THEN {c.shutterPosition \o " position"} ELSE {},
                           IF c.adaptiveSampling THEN {"adaptive"} ELSE {}>>),
                     ", ")

-----------------------------------------------------------------------------
(* cli/src/server/validation.ts.  A JavaScript value is a record of its    *)
(* type and its content; a number is held in halves, like the numbers of   *)
(* the configuration, and Infinity is a number of its own.                 *)

Undefined == [type |-> "undefined", value |-> {}]

Null == [type |-> "null", value |-> {}]

Infinity == [type |-> "infinity", value |-> {}]

IsUndefined(v) == v.type = "undefined"

IsNull(v) == v.type = "null"

Str(s) == [type |-> "string", value |-> s]

\* The number h / 2.
Halves(h) == [type |-> "number", value |-> h]

Number(x) == Halves(Num(x))

Bool(b) == [type |-> "boolean", value |-> b]

\* An object literal: a record of its properties.
Object(properties) == [type |-> "object", value |-> properties]

\* An array literal: the sequence of its elements.
Array(elements) == [type |-> "array", value |-> elements]

typeof(v) ==
    CASE v.type \in {"null", "object", "array"} -> "object"
      [] v.type \in {"number", "infinity"} -> "number"
      [] OTHER -> v.type

\* !v is false: v is none of undefined, null, false, 0, ''.
Truthy(v) ==
    CASE v.type \in {"undefined", "null"} -> FALSE
      [] v.type = "boolean" -> v.value
      [] v.type = "number" -> v.value # 0
      [] v.type = "string" -> v.value # ""
      [] OTHER -> TRUE

\* v[name] for a property name that is not an array index.
Get(v, name) ==
    IF v.type = "object" /\ name \in DOMAIN v.value THEN v.value[name]
    ELSE Undefined

\* Number.isInteger(v) for a v of type number.
isInteger(v) == v.type = "number" /\ v.value % 2 = 0

\* a < b for two values of type number.
LessThan(a, b) ==
    CASE a.type = "infinity" -> FALSE
      [] b.type = "infinity" -> TRUE
      [] OTHER -> a.value < b.value

\* s.endsWith(suffix)
endsWith(s, suffix) ==
    /\ Len(s) >= Len(suffix)
    /\ SubSeq(s, Len(s) - Len(suffix) + 1, Len(s)) = suffix

\* s.indexOf(c) for a single character c, counted from 1; 0 when absent.
indexOf(s, c) ==
    IF \E i \in 1..Len(s) : SubSeq(s, i, i) = c
    THEN CHOOSE i \in 1..Len(s) :
             /\ SubSeq(s, i, i) = c
             /\ \A j \in 1..(i - 1) : SubSeq(s, j, j) # c
    ELSE 0

\* s without its leading slashes.
RECURSIVE SkipSlashes(_)
SkipSlashes(s) ==
    IF Len(s) > 0 /\ SubSeq(s, 1, 1) = "/"
    THEN SkipSlashes(SubSeq(s, 2, Len(s)))
    ELSE s

\* new URL(url).protocol for a lower-case url: {} when the constructor
\* throws, which it does for a string without a scheme and for an http,
\* https or ftp URL without a host.
URLProtocol(url) ==
    LET colon == indexOf(url, ":")
        scheme == SubSeq(url, 1, colon - 1)
        rest == SubSeq(url, colon + 1, Len(url))
    IN  IF colon <= 1 THEN {}
        ELSE IF \E i \in 1..Len(scheme) : SubSeq(scheme, i, i) \in {"/", " ", "-"}
        THEN {}
        ELSE IF scheme \in {"http", "https", "ftp"} /\ SkipSlashes(rest) = ""
        THEN {}
        ELSE {scheme \o ":"}

isValidUrl(url) ==
    LET parsed == URLProtocol(url)
    IN  Has(parsed) /\ (Val(parsed) = "http:" \/ Val(parsed) = "https:")

isValidOutFile(outFile) ==
    \/ endsWith(outFile, ".mp4")
    \/ endsWith(outFile, ".webm")
    \/ endsWith(outFile, ".mov")

ValidationError(field, message) == [field |-> field, message |-> message]

\* errors.push(error) when the condition holds
PushIf(condition, field, message) ==
    IF condition THEN <<ValidationError(field, message)>> ELSE <<>>

validExporters ==
    <<"@revideo/core/wasm", "@revideo/core/ffmpeg", "@revideo/core/image-sequence">>

validFormats == <<"mp4", "webm", "proRes">>

\* list.includes(v)
includes(list, v) == \E i \in 1..Len(list) : list[i] = v

validateExporter(exporter) ==
    LET name == Get(exporter, "name")
        options_ == Get(exporter, "options")
        format == Get(options_, "format")
    IN  PushIf(/\ ~IsUndefined(name)
               /\ (typeof(name) # "string" \/ ~includes(validExporters, name.value)),
               "settings.projectSettings.exporter.name",
               "exporter.name must be one of: " \o Join(validExporters, ", "))
        \o (IF IsUndefined(options_) THEN <<>>
            ELSE IF typeof(options_) # "object" \/ IsNull(options_)
            THEN PushIf(TRUE, "settings.projectSettings.exporter.options",
                        "exporter.options must be an object")
            ELSE PushIf(/\ ~IsUndefined(format)
                        /\ (typeof(format) # "string"
                                \/ ~includes(validFormats, format.value)),
                        "settings.projectSettings.exporter.options.format",
                        "format must be one of: " \o Join(validFormats, ", ")))

validateSize(size_) ==
    LET x == Get(size_, "x")
        y == Get(size_, "y")
    IN  PushIf(typeof(x) # "number" \/ ~LessThan(Number(0), x),
               "settings.projectSettings.size.x",
               "size.x must be a positive number")
        \o PushIf(typeof(y) # "number" \/ ~LessThan(Number(0), y),
                  "settings.projectSettings.size.y",
                  "size.y must be a positive number")

validateRange(range) ==
    IF range.type # "array" \/ Len(range.value) # 2
    THEN PushIf(TRUE, "settings.projectSettings.range",
                "range must be an array of two numbers [start, end]")
    ELSE LET start == range.value[1]
             end == range.value[2]
         IN  PushIf(typeof(start) # "number" \/ LessThan(start, Number(0)),
                    "settings.projectSettings.range[0]",
                    "range start must be a non-negative number")
             \o (IF typeof(end) # "number"
                 THEN PushIf(TRUE, "settings.projectSettings.range[1]",
                             "range end must be a number")
                 ELSE PushIf(/\ end.type = "number"
                             /\ typeof(start) = "number"
                             /\ LessThan(end, start),
                             "settings.projectSettings.range",
                             "range end must be greater than or equal to start"))

validateProjectSettings(projectSettings) ==
    IF typeof(projectSettings) # "object" \/ IsNull(projectSettings)
    THEN PushIf(TRUE, "settings.projectSettings",
                "projectSettings must be an object")
    ELSE LET exporter == Get(projectSettings, "exporter")
             background_ == Get(projectSettings, "background")
             size_ == Get(projectSettings, "size")
             range == Get(projectSettings, "range")
         IN  (IF IsUndefined(exporter) THEN <<>>
              ELSE IF typeof(exporter) # "object" \/ IsNull(exporter)
              THEN PushIf(TRUE, "settings.projectSettings.exporter",
                          "exporter must be an object")
              ELSE validateExporter(exporter))
             \o PushIf(~IsUndefined(background_) /\ typeof(background_) # "string",
                       "settings.projectSettings.background",
                       "background must be a string (color value)")
             \o (IF IsUndefined(size_) THEN <<>>
                 ELSE IF typeof(size_) # "object" \/ IsNull(size_)
                 THEN PushIf(TRUE, "settings.projectSettings.size",
                             "size must be an object with x and y properties")
                 ELSE validateSize(size_))
             \o (IF IsUndefined(range) THEN <<>> ELSE validateRange(range))

\* The integer check of workers and viteBasePort, then the range check.
validateIntegerIn(v, lo, hi, field, name, rangeMessage) ==
    IF IsUndefined(v) THEN <<>>
    ELSE IF typeof(v) # "number" \/ ~isInteger(v)
    THEN PushIf(TRUE, field, name \o " must be an integer")
    ELSE PushIf(LessThan(v, Number(lo)) \/ LessThan(Number(hi), v),
                field, rangeMessage)

validateSettings(settings) ==
    IF typeof(settings) # "object" \/ IsNull(settings)
    THEN PushIf(TRUE, "settings", "settings must be an object")
    ELSE LET outFile == Get(settings, "outFile")
             outDir == Get(settings, "outDir")
             logProgress == Get(settings, "logProgress")
             projectSettings == Get(settings, "projectSettings")
         IN  (IF IsUndefined(outFile) THEN <<>>
              ELSE IF typeof(outFile) # "string"
              THEN PushIf(TRUE, "settings.outFile", "outFile must be a string")
              ELSE PushIf(~isValidOutFile(outFile.value), "settings.outFile",
                          "outFile must end with .mp4, .webm, or .mov"))
             \o PushIf(~IsUndefined(outDir) /\ typeof(outDir) # "string",
                       "settings.outDir", "outDir must be a string")
             \o validateIntegerIn(Get(settings, "workers"), 1, 32,
                                  "settings.workers", "workers",
                                  "workers must be between 1 and 32")
             \o PushIf(~IsUndefined(logProgress) /\ typeof(logProgress) # "boolean",
                       "settings.logProgress", "logProgress must be a boolean")
             \o validateIntegerIn(Get(settings, "viteBasePort"), 1, 65535,
                                  "settings.viteBasePort", "viteBasePort",
                                  "viteBasePort must be a valid port number (1-65535)")
             \o (IF IsUndefined(projectSettings) THEN <<>>
                 ELSE validateProjectSettings(projectSettings))

\* Mutation of the returned result: only the first error is reported.
ValidationResult_FirstOnly(errors) ==
    [valid |-> Len(errors) = 0,
     errors |-> IF errors = <<>> THEN <<>> ELSE <<Head(errors)>>]

\* return {valid: errors.length === 0, errors}
ValidationResult(errors) == [valid |-> Len(errors) = 0, errors |-> errors]

validateRenderRequest(body) ==
    IF ~Truthy(body) \/ typeof(body) # "object"
    THEN [valid |-> FALSE,
          errors |-> <<ValidationError("body", "Request body must be a JSON object")>>]
    ELSE LET callbackUrl == Get(body, "callbackUrl")
             variables == Get(body, "variables")
             settings == Get(body, "settings")
             streamProgress == Get(body, "streamProgress")
             errors ==
                 (IF IsUndefined(callbackUrl) THEN <<>>
                  ELSE IF typeof(callbackUrl) # "string"
                  THEN PushIf(TRUE, "callbackUrl", "callbackUrl must be a string")
                  ELSE PushIf(~isValidUrl(callbackUrl.value), "callbackUrl",
                              "callbackUrl must be a valid URL"))
                 \o PushIf(/\ ~IsUndefined(variables)
                           /\ (typeof(variables) # "object" \/ IsNull(variables)),
                           "variables", "variables must be an object")
                 \o PushIf(/\ ~IsUndefined(streamProgress)
                           /\ typeof(streamProgress) # "boolean",
                           "streamProgress", "streamProgress must be a boolean")
                 \o (IF IsUndefined(settings) THEN <<>>
                     ELSE validateSettings(settings))
         IN  ValidationResult(errors)

-----------------------------------------------------------------------------
(* PlaybackStatus.  The PlaybackManager it wraps is the record `playback`; *)
(* frame, speed and fps are integers there and become numbers of the       *)
(* format above where the getters compute with them.                       *)

\* framesToSeconds(frames): frames / this.playback.fps
framesToSeconds(pb, frames) == FDiv(frames, FInt(pb.fps))

\* Mutation of the time getter: the sub-frame offset is left out.
time_FrameOnly(pb, offset) == framesToSeconds(pb, FInt(pb.frame))

\* get time(): framesToSeconds(this.playback.frame) + this.subframeOffsetValue
time(pb, offset) == FAdd(framesToSeconds(pb, FInt(pb.frame)), offset)

\* get deltaTime(): framesToSeconds(1) * this.speed
deltaTime(pb) == FMul(framesToSeconds(pb, FInt(1)), FInt(pb.speed))

\* What the getters of a PlaybackStatus return.
Getters(pb, offset) ==
    [subframeOffset |-> offset,
     time |-> time(pb, offset),
     frame |-> pb.frame,
     speed |-> pb.speed,
     fps |-> pb.fps,
     state |-> pb.state,
     deltaTime |-> deltaTime(pb)]

\* Nothing has been read yet.
NoStatus ==
    [subframeOffset |-> FInt(0), time |-> FInt(0), frame |-> -1, speed |-> 0,
     fps |-> 0, state |-> "none", deltaTime |-> FInt(0)]

-----------------------------------------------------------------------------
(* Stage.ts                                                                *)

\* get canvasSize(): this.size.scale(this.resolutionScale)
canvasSize(sz, scale) == <<sz[1] * scale, sz[2] * scale>>

\* size.width * size.height * 4
bufferSizeOf(sz, scale) == canvasSize(sz, scale)[1] * canvasSize(sz, scale)[2] * 4

\* resizeCanvas(this.context): assigning canvas.width/height clears the canvas
\* to transparent black.
resizeCanvas(sz, scale) == Zeros(bufferSizeOf(sz, scale))

\* getImageData / createImageData throw IndexSizeError for an empty rectangle.
imageDataThrows(sz, scale) ==
    canvasSize(sz, scale)[1] = 0 \/ canvasSize(sz, scale)[2] = 0

\* Mutation of beginMotionBlurAccumulation: a buffer of the right length is
\* reused without being cleared.
beginMotionBlurAccumulation_NoClear(buf, sz, scale) ==
    IF ~Has(buf) \/ Len(Val(buf)) # bufferSizeOf(sz, scale)
    THEN {Zeros(bufferSizeOf(sz, scale))}
    ELSE buf

\* beginMotionBlurAccumulation: the buffer it leaves in accumulationBuffer.
beginMotionBlurAccumulation(buf, sz, scale) ==
    IF ~Has(buf) \/ Len(Val(buf)) # bufferSizeOf(sz, scale)
    THEN {Zeros(bufferSizeOf(sz, scale))}
    ELSE {[i \in 1..Len(Val(buf)) |-> 0]}

\* accumulateMotionBlurSample: whether getImageData throws.
accumulateThrows(buf, sz, scale) == Has(buf) /\ imageDataThrows(sz, scale)

\* Mutation of accumulateMotionBlurSample: the weight is ignored.
accumulateMotionBlurSample_Unweighted(buf, px, weight) ==
    IF ~Has(buf) THEN buf
    ELSE {[i \in 1..Len(Val(buf)) |->
              IF i <= Len(px)
              THEN Fround(Val(buf)[i] + px[i] * One)
              ELSE Val(buf)[i]]}

\* accumulateMotionBlurSample: the buffer after the loop over pixels.
accumulateMotionBlurSample(buf, px, weight) ==
    IF ~Has(buf) THEN buf
    ELSE {[i \in 1..Len(Val(buf)) |->
              IF i <= Len(px)
              THEN Fround(Val(buf)[i] + px[i] * weight)
              ELSE Val(buf)[i]]}

\* accumulationSamples++ unless the method returned early.
accumulateCount(buf, samples) == IF ~Has(buf) THEN samples ELSE samples + 1

\* finalizeMotionBlur: the early return.
finalizeSkips(buf, samples) == ~Has(buf) \/ samples = 0

\* finalizeMotionBlur: createImageData throws for an empty canvas.
finalizeThrows(buf, samples, sz, scale) ==
    ~finalizeSkips(buf, samples) /\ imageDataThrows(sz, scale)

\* finalizeMotionBlur: the visible render target after putImageData. An entry
\* the buffer does not cover reads undefined, which is stored as 0.
finalizeMotionBlur(buf, samples, px) ==
    IF finalizeSkips(buf, samples) THEN px
    ELSE [i \in 1..Len(px) |->
             IF i <= Len(Val(buf)) THEN ToPixel(Val(buf)[i]) ELSE 0]

\* accumulationSamples after finalizeMotionBlur.
finalizeCount(buf, samples) == samples

\* Mutation of configure: the accumulation buffer survives a resize.
resetOnResize_Kept(buf, resized) == buf

\* Mutation of configure: every call drops the accumulation buffer.
resetOnResize_Always(buf, resized) == {}

\* configure: `this.accumulationBuffer = null` inside the resize branch.
resetOnResize(buf, resized) == IF resized THEN {} ELSE buf

-----------------------------------------------------------------------------
(* Bounds and inputs of the Stage model.                                   *)

\* Sub-frames per renderWithMotionBlur call.
MaxSamples == 2

\* Samples in the buffer beyond which no direct accumulateMotionBlurSample
\* call is made.
MaxAccumulate == 1

\* Callers of renderWithMotionBlur, each with at most one call in flight, and
\* the callers that are active under Spec.
Calls == {1, 2}

Single == {1}

\* Pictures the sub-frame callbacks draw, and the picture Stage.render draws
\* outside a motion-blur pass (the static overlay).
Frames == {0, 1}

RenderFrames == {3}

PixelVals == <<0, 200, 201, 255>>

\* The RGBA bytes frame k leaves in a visible render target of n entries.
Image(k, n) == [i \in 1..n |-> PixelVals[((i + k) % 4) + 1]]

\* Weights: just above and just below 1/2, 2 (over-exposure) and -1.
NearHalfHi == One \div 2 + 1

NearHalfLo == One \div 2 - 1

\* Weight of a direct accumulateMotionBlurSample call.
DirectWeights == {One}

\* The offset of sub-frame i is the time, hence the picture, the callback draws.
Offsets(n) == [i \in 1..n |-> (i - 1) % Cardinality(Frames)]

WeightPlans(n) ==
    {[i \in 1..n |-> IF i % 2 = 1 THEN NearHalfHi ELSE NearHalfLo],
     [i \in 1..n |-> IF i % 2 = 1 THEN 2 * One ELSE -One]}

\* Arguments of renderWithMotionBlur: equal lengths, empty, and mismatched.
\* The second caller passes one sub-frame of weight 1, or nothing.
CallInputs(c) ==
    IF c = 1
    THEN {[offsets |-> Offsets(n), weights |-> w] :
             n \in 0..MaxSamples, w \in UNION {WeightPlans(m) : m \in 0..MaxSamples}}
    ELSE {[offsets |-> Offsets(1), weights |-> <<One>>],
          [offsets |-> <<>>, weights |-> <<One>>]}

NoArgs == [offsets |-> <<>>, weights |-> <<>>]

\* Partial<StageSettings> passed to configure.
SettingsInputs ==
    {s \in [size : {{}, {<<1, 1>>}},
            resolutionScale : {{}, {1}, {2}},
            colorSpace : {{}, {"display-p3"}},
            background : {{}, {"#000"}},
            motionBlur : {{}, {[NoOptions EXCEPT !.quality = {"high"}]}}] :
        /\ Has(s.colorSpace) <=> Has(s.background)
        /\ Has(s.background) <=> Has(s.motionBlur)}

\* op: what the last step reported to its caller. Only returns of
\* renderWithMotionBlur, finalizeMotionBlur and thrown exceptions are told
\* apart.
NoOp ==
    [name |-> "none", call |-> 0, outcome |-> "none", wrote |-> FALSE,
     threw |-> FALSE, log |-> <<>>, clean |-> FALSE, exact |-> <<>>,
     facc |-> <<>>, prior |-> "none"]

\* A direct call of a Stage method.
Direct(name, wrote, threw) ==
    [NoOp EXCEPT !.name = name, !.wrote = wrote, !.threw = threw]

\* new PlaybackStatus(playback) on a PlaybackManager that has not started.
PlaybackInit ==
    /\ playback = [frame |-> 0, speed |-> 1, fps |-> 30, state |-> "Paused"]
    /\ subframeOffsetValue = FInt(0)
    /\ status = NoStatus

NoAdaptive == [called |-> FALSE, velocity |-> 0, threshold |-> 0, result |-> 0]

NoValidation == [body |-> Undefined, result |-> {}]

RequestInit == validation = NoValidation

SubframesInit ==
    /\ frameDuration = FInt(0)
    /\ subframeOffsets = <<>>
    /\ subframeWeights = <<>>
    /\ adaptive = NoAdaptive
    /\ description = {}

StageInit ==
    /\ size = <<0, 0>>
    /\ resolutionScale = 1
    /\ colorSpace = "srgb"
    /\ background = {}
    /\ motionBlurConfig = DEFAULT_MOTION_BLUR_CONFIG
    /\ accumulationBuffer = {}
    /\ accumulationSamples = 0
    /\ pixels = <<>>

\* No call in flight; history is "none" where the cycles are followed and
\* "untracked" where they are not.
CallsStart(history) ==
    /\ pc = [c \in Calls |-> "idle"]
    /\ args = [c \in Calls |-> NoArgs]
    /\ idx = [c \in Calls |-> 0]
    /\ log = [c \in Calls |-> <<>>]
    /\ clean = [c \in Calls |-> FALSE]
    /\ exact = [c \in Calls |-> <<>>]
    /\ facc = [c \in Calls |-> <<>>]
    /\ prior = history
    /\ op = NoOp

CallsInit == CallsStart("untracked")

\* The history of cycles is recorded in this behaviour.
Tracked == prior # "untracked"

\* prior after a cycle has ended.
Ended(how) == IF Tracked THEN how ELSE prior

Init ==
    /\ given = FALSE
    /\ options = NoOptions
    /\ config = DEFAULT_MOTION_BLUR_CONFIG
    /\ config2 = DEFAULT_MOTION_BLUR_CONFIG
    /\ cstep = "input"
    /\ PlaybackInit
    /\ SubframesInit
    /\ RequestInit
    /\ StageInit
    /\ CallsInit

\* An accumulation operation run by `c` (0: a direct call, or a resize)
\* disturbs every other call in flight; a disturbed call's sums are dropped.
Disturb(c) == [d \in Calls |-> clean[d] /\ d = c]

Kept(g, c) == [d \in Calls |-> IF clean[d] /\ d = c THEN g[d] ELSE <<>>]

-----------------------------------------------------------------------------
(* Stage operations.                                                       *)

\* Stage.configure(settings)
configure(s) ==
    LET newSize == Coalesce(s.size, size)
        newScale == Coalesce(s.resolutionScale, resolutionScale)
        resized == newSize # size \/ newScale # resolutionScale
    IN  /\ colorSpace' = Coalesce(s.colorSpace, colorSpace)
        /\ size' = newSize
        /\ resolutionScale' = newScale
        /\ pixels' = IF resized THEN resizeCanvas(newSize, newScale) ELSE pixels
        /\ accumulationBuffer' = resetOnResize(accumulationBuffer, resized)
        /\ background' = IF Has(s.background) THEN s.background ELSE background
        /\ motionBlurConfig' =
               IF Has(s.motionBlur)
               THEN resolveMotionBlurConfig(TRUE, Val(s.motionBlur))
               ELSE motionBlurConfig
        /\ clean' = IF resized THEN Disturb(0) ELSE clean
        /\ exact' = IF resized THEN Kept(exact, 0) ELSE exact
        /\ facc' = IF resized THEN Kept(facc, 0) ELSE facc
        /\ prior' = IF resized /\ accumulationBuffer # {} THEN Ended("resized")
                     ELSE prior
        /\ op' = IF Tracked THEN Direct("configure", FALSE, FALSE) ELSE NoOp
        /\ UNCHANGED <<accumulationSamples, pc, args, idx, log>>

Configure == \E s \in SettingsInputs : configure(s) /\ UNCHANGED libvars

\* Stage.render(scene, ...): the scene is drawn on the visible render target.
Render ==
    \E k \in RenderFrames :
        /\ pixels' = Image(k, Len(pixels))
        /\ op' = NoOp
        /\ UNCHANGED <<libvars, size, resolutionScale, colorSpace, background,
                       motionBlurConfig, accumulationBuffer, accumulationSamples,
                       callvars>>

\* stage.beginMotionBlurAccumulation()
Begin ==
    /\ accumulationBuffer' =
           beginMotionBlurAccumulation(accumulationBuffer, size, resolutionScale)
    /\ accumulationSamples' = 0
    /\ clean' = Disturb(0)
    /\ exact' = Kept(exact, 0)
    /\ facc' = Kept(facc, 0)
    /\ op' = NoOp
    /\ UNCHANGED <<libvars, size, resolutionScale, colorSpace, background,
                   motionBlurConfig, pixels, pc, args, idx, log, prior>>

\* What a direct accumulateMotionBlurSample call finds on the visible render
\* target: it is called after a render (Stage.ts:171), or on a blank canvas.
Rendered(px) ==
    \/ px = Zeros(Len(px))
    \/ \E k \in Frames \cup RenderFrames : px = Image(k, Len(px))

\* stage.accumulateMotionBlurSample(weight)
Accumulate ==
    \E weight \in DirectWeights :
        /\ accumulationSamples < MaxAccumulate
        /\ Rendered(pixels)
        /\ IF accumulateThrows(accumulationBuffer, size, resolutionScale)
           THEN /\ op' = Direct("accumulate", FALSE, TRUE)
                /\ UNCHANGED <<accumulationBuffer, accumulationSamples>>
           ELSE /\ accumulationBuffer' =
                       accumulateMotionBlurSample(accumulationBuffer, pixels, weight)
                /\ accumulationSamples' =
                       accumulateCount(accumulationBuffer, accumulationSamples)
                /\ op' = NoOp
        /\ clean' = Disturb(0)
        /\ exact' = Kept(exact, 0)
        /\ facc' = Kept(facc, 0)
        /\ UNCHANGED <<libvars, size, resolutionScale, colorSpace, background,
                       motionBlurConfig, pixels, pc, args, idx, log, prior>>

\* stage.finalizeMotionBlur()
Finalize ==
    /\ IF finalizeThrows(accumulationBuffer, accumulationSamples, size,
                         resolutionScale)
       THEN /\ op' = Direct("finalize", FALSE, TRUE)
            /\ UNCHANGED <<pixels, accumulationSamples>>
       ELSE /\ pixels' =
                   finalizeMotionBlur(accumulationBuffer, accumulationSamples, pixels)
            /\ accumulationSamples' =
                   finalizeCount(accumulationBuffer, accumulationSamples)
            /\ op' = Direct("finalize",
                            ~finalizeSkips(accumulationBuffer, accumulationSamples),
                            FALSE)
    /\ clean' = Disturb(0)
    /\ exact' = Kept(exact, 0)
    /\ facc' = Kept(facc, 0)
    /\ UNCHANGED <<libvars, size, resolutionScale, colorSpace, background,
                   motionBlurConfig, accumulationBuffer, pc, args, idx, log,
                   prior>>

-----------------------------------------------------------------------------
(* Stage.renderWithMotionBlur, an async function: it runs from the call to *)
(* the first `await renderCallback(...)`, and then from each resolution of *)
(* the awaited callback to the next await or to its end.                   *)

\* Mutation of the guard: weights longer than offsets are let through.
renderGuardReturns_LongerWeights(offsets, weights) ==
    Len(offsets) = 0 \/ Len(offsets) > Len(weights)

\* if (subframeOffsets.length === 0 || subframeOffsets.length !== weights.length) return;
renderGuardReturns(offsets, weights) ==
    Len(offsets) = 0 \/ Len(offsets) # Len(weights)

\* The slot of a call that has returned.
Release(c) ==
    /\ pc' = [pc EXCEPT ![c] = "idle"]
    /\ args' = [args EXCEPT ![c] = NoArgs]
    /\ idx' = [idx EXCEPT ![c] = 0]
    /\ log' = [log EXCEPT ![c] = <<>>]

\* What a returning call reports.
Returned(c, outcome, wrote, threw, l, e, f) ==
    [name |-> "renderWithMotionBlur", call |-> c, outcome |-> outcome,
     wrote |-> wrote, threw |-> threw, log |-> l, clean |-> clean[c],
     exact |-> e, facc |-> f, prior |-> prior]

\* Mutation of the loop body: the sample is accumulated before the awaited
\* callback has completed.
LoopEvents_AccumulateFirst(i) == <<<<"accumulate", i>>, <<"completed", i>>>>

\* The events of one loop iteration after the callback was invoked: the
\* awaited callback completes, then accumulateMotionBlurSample(weights[i]).
LoopEvents(i) == <<<<"completed", i>>, <<"accumulate", i>>>>

\* renderWithMotionBlur(renderCallback, subframeOffsets, weights): up to the
\* first await.
renderWithMotionBlur(c, a) ==
    /\ pc[c] = "idle"
    /\ IF renderGuardReturns(a.offsets, a.weights)
       THEN /\ op' = [NoOp EXCEPT !.name = "renderWithMotionBlur",
                                      !.outcome = "noop"]
            /\ UNCHANGED <<stagevars, callvars>>
       ELSE /\ accumulationBuffer' =
                   beginMotionBlurAccumulation(accumulationBuffer, size,
                                               resolutionScale)
            /\ accumulationSamples' = 0
            /\ pc' = [pc EXCEPT ![c] = "await"]
            /\ args' = [args EXCEPT ![c] = a]
            /\ idx' = [idx EXCEPT ![c] = 1]
            /\ log' = [log EXCEPT ![c] = <<<<"begin", 0>>, <<"callback", 1>>>>]
            /\ clean' = [d \in Calls |-> d = c]
            /\ exact' = [d \in Calls |-> IF d = c THEN Zeros(Len(pixels)) ELSE <<>>]
            /\ facc' = [d \in Calls |-> IF d = c THEN Zeros(Len(pixels)) ELSE <<>>]
            /\ op' = NoOp
            /\ UNCHANGED <<size, resolutionScale, colorSpace, background,
                           motionBlurConfig, pixels, prior>>

Call(C) ==
    \E c \in C : \E a \in CallInputs(c) :
        renderWithMotionBlur(c, a) /\ UNCHANGED libvars

\* The callback of sub-frame idx renders the scene at its time offset (it
\* calls stage.render) and has the visible render target fully drawn.
CallbackDraw(C) ==
    \E c \in C :
        /\ pc[c] = "await"
        /\ pixels' = Image(args[c].offsets[idx[c]], Len(pixels))
        /\ pc' = [pc EXCEPT ![c] = "drawn"]
        /\ op' = NoOp
        /\ UNCHANGED <<libvars, size, resolutionScale, colorSpace, background,
                       motionBlurConfig, accumulationBuffer, accumulationSamples,
                       args, idx, log, clean, exact, facc, prior>>

\* The awaited callback rejects: the call ends there, rejected.
CallbackReject(C) ==
    \E c \in C :
        /\ pc[c] # "idle"
        /\ op' = Returned(c, "rejected", FALSE, TRUE, log[c], <<>>, <<>>)
        /\ Release(c)
        /\ clean' = [clean EXCEPT ![c] = FALSE]
        /\ exact' = [exact EXCEPT ![c] = <<>>]
        /\ facc' = [facc EXCEPT ![c] = <<>>]
        /\ prior' = Ended("abandoned")
        /\ UNCHANGED <<libvars, stagevars>>

\* The awaited callback resolves: accumulateMotionBlurSample(weights[i]), then
\* the next callback, or finalizeMotionBlur and the return.
resume(c) ==
    LET i == idx[c]
        n == Len(args[c].offsets)
        weight == args[c].weights[i]
        own == clean[c] /\ Len(exact[c]) = Len(pixels)
        e == IF own THEN [j \in 1..Len(pixels) |-> exact[c][j] + pixels[j] * weight]
             ELSE <<>>
        f == IF own THEN [j \in 1..Len(pixels) |-> Fround(facc[c][j] + pixels[j] * weight)]
             ELSE <<>>
        buf == accumulateMotionBlurSample(accumulationBuffer, pixels, weight)
        cnt == accumulateCount(accumulationBuffer, accumulationSamples)
        l1 == log[c] \o LoopEvents(i)
    IN  /\ pc[c] = "drawn"
        /\ IF accumulateThrows(accumulationBuffer, size, resolutionScale)
           THEN /\ op' = Returned(c, "rejected", FALSE, TRUE,
                                  log[c] \o <<<<"completed", i>>>>, <<>>, <<>>)
                /\ Release(c)
                /\ clean' = [clean EXCEPT ![c] = FALSE]
                /\ exact' = [exact EXCEPT ![c] = <<>>]
                /\ facc' = [facc EXCEPT ![c] = <<>>]
                /\ prior' = Ended("abandoned")
                /\ UNCHANGED stagevars
           ELSE IF i < n
           THEN /\ accumulationBuffer' = buf
                /\ accumulationSamples' = cnt
                /\ pc' = [pc EXCEPT ![c] = "await"]
                /\ idx' = [idx EXCEPT ![c] = i + 1]
                /\ log' = [log EXCEPT ![c] = l1 \o <<<<"callback", i + 1>>>>]
                /\ clean' = Disturb(c)
                /\ exact' = [d \in Calls |-> IF d = c THEN e ELSE <<>>]
                /\ facc' = [d \in Calls |-> IF d = c THEN f ELSE <<>>]
                /\ op' = NoOp
                /\ UNCHANGED <<size, resolutionScale, colorSpace, background,
                               motionBlurConfig, pixels, args, prior>>
           ELSE IF finalizeThrows(buf, cnt, size, resolutionScale)
           THEN /\ accumulationBuffer' = buf
                /\ accumulationSamples' = cnt
                /\ op' = Returned(c, "rejected", FALSE, TRUE, l1, <<>>, <<>>)
                /\ Release(c)
                /\ clean' = [d \in Calls |-> FALSE]
                /\ exact' = [d \in Calls |-> <<>>]
                /\ facc' = [d \in Calls |-> <<>>]
                /\ prior' = Ended("abandoned")
                /\ UNCHANGED <<size, resolutionScale, colorSpace, background,
                               motionBlurConfig, pixels>>
           ELSE /\ accumulationBuffer' = buf
                /\ accumulationSamples' = finalizeCount(buf, cnt)
                /\ pixels' = finalizeMotionBlur(buf, cnt, pixels)
                /\ op' = Returned(c, "resolved", ~finalizeSkips(buf, cnt), FALSE,
                                  l1 \o <<<<"finalize", 0>>, <<"resolve", 0>>>>, e, f)
                /\ Release(c)
                /\ clean' = [d \in Calls |-> FALSE]
                /\ exact' = [d \in Calls |-> <<>>]
                /\ facc' = [d \in Calls |-> <<>>]
                /\ prior' = Ended("finalized")
                /\ UNCHANGED <<size, resolutionScale, colorSpace, background,
                               motionBlurConfig>>

CallbackResolve(C) == \E c \in C : resume(c) /\ UNCHANGED libvars

Next ==
    \/ Configure
    \/ Render
    \/ Begin
    \/ Accumulate
    \/ Finalize
    \/ Call(Single)
    \/ CallbackDraw(Single)
    \/ CallbackReject(Single)
    \/ CallbackResolve(Single)

Spec == Init /\ [][Next]_vars

-----------------------------------------------------------------------------
(* Two callers of renderWithMotionBlur on one Stage: the second may call    *)
(* while the call of the first is suspended in an await.                   *)

NextConcurrent ==
    \/ Configure
    \/ Call(Calls)
    \/ CallbackDraw(Calls)
    \/ CallbackReject(Calls)
    \/ CallbackResolve(Calls)

SpecConcurrent == Init /\ [][NextConcurrent]_vars

\* The calls of one caller, which follow one another, direct calls of the
\* three accumulation methods and configure at any moment, with the way each
\* cycle ended recorded.
InitCycles ==
    /\ given = FALSE
    /\ options = NoOptions
    /\ config = DEFAULT_MOTION_BLUR_CONFIG
    /\ config2 = DEFAULT_MOTION_BLUR_CONFIG
    /\ cstep = "input"
    /\ PlaybackInit
    /\ SubframesInit
    /\ RequestInit
    /\ StageInit
    /\ CallsStart("none")

NextCycles ==
    \/ Configure
    \/ Begin
    \/ Accumulate
    \/ Finalize
    \/ Call(Single)
    \/ CallbackDraw(Single)
    \/ CallbackReject(Single)
    \/ CallbackResolve(Single)

SpecCycles == InitCycles /\ [][NextCycles]_vars

-----------------------------------------------------------------------------
(* resolveMotionBlurConfig exercised on its own.                           *)

InitConfig ==
    /\ given \in BOOLEAN
    /\ options \in IF given THEN OptionInputs ELSE {NoOptions}
    /\ config = DEFAULT_MOTION_BLUR_CONFIG
    /\ config2 = DEFAULT_MOTION_BLUR_CONFIG
    /\ cstep = "input"
    /\ PlaybackInit
    /\ SubframesInit
    /\ RequestInit
    /\ StageInit
    /\ CallsInit

\* config = resolveMotionBlurConfig(options)
Resolve ==
    /\ cstep = "input"
    /\ config' = resolveMotionBlurConfig(given, options)
    /\ cstep' = "resolved"
    /\ UNCHANGED <<given, options, config2, pbvars, sfvars, stagevars,
                   callvars, op>>

\* config2 = resolveMotionBlurConfig(config)
ResolveAgain ==
    /\ cstep = "resolved"
    /\ config2' = resolveMotionBlurConfig(TRUE, AsOptions(config))
    /\ cstep' = "reresolved"
    /\ UNCHANGED <<given, options, config, pbvars, sfvars, stagevars,
                   callvars, op>>

NextConfig == Resolve \/ ResolveAgain

SpecConfig == InitConfig /\ [][NextConfig]_vars

-----------------------------------------------------------------------------
(* PlaybackStatus: its operations, and the PlaybackManager moving on.      *)

\* Frames the PlaybackManager is advanced through.
MaxFrame == 3

FrameRates == {24, 30}

Speeds == {1, 2}

PlaybackStates == {"Paused", "Playing"}

\* Offsets handed to setSubframeOffset: the sub-frame offsets of a 180 degree
\* shutter at 30 and 60 frames per second, and zero.
SubframeOffsetInputs ==
    {FInt(0),
     FNeg(FDiv(FInt(1), FInt(60))),
     FNeg(FDiv(FInt(1), FInt(120))),
     FDiv(FInt(1), FInt(240))}

\* Mutation of setSubframeOffset: the offset also moves the frame counter.
setSubframeOffset_MovesFrame(offset) ==
    /\ subframeOffsetValue' = offset
    /\ playback' = [playback EXCEPT !.frame = (@ + 1) % (MaxFrame + 1)]
    /\ UNCHANGED status

setSubframeOffset(offset) ==
    /\ subframeOffsetValue' = offset
    /\ UNCHANGED <<playback, status>>

SetSubframeOffset ==
    \E offset \in SubframeOffsetInputs :
        setSubframeOffset(offset)
        /\ UNCHANGED <<cvars, sfvars, stagevars, callvars, op>>

resetSubframeOffset ==
    /\ subframeOffsetValue' = FInt(0)
    /\ UNCHANGED <<playback, status, cvars, sfvars, stagevars, callvars, op>>

\* The getters are read: subframeOffset, time, frame, speed, fps, state and
\* deltaTime.
ReadStatus ==
    /\ status' = Getters(playback, subframeOffsetValue)
    /\ UNCHANGED <<playback, subframeOffsetValue, cvars, sfvars, stagevars,
                   callvars, op>>

\* The PlaybackManager advances to the next frame.
Advance ==
    /\ playback.frame < MaxFrame
    /\ playback' = [playback EXCEPT !.frame = @ + 1]
    /\ UNCHANGED <<subframeOffsetValue, status, cvars, sfvars, stagevars,
                   callvars, op>>

\* The PlaybackManager is given another speed, frame rate or state.
Manage ==
    /\ \E s \in Speeds, f \in FrameRates, st \in PlaybackStates :
           /\ playback' = [playback EXCEPT !.speed = s, !.fps = f, !.state = st]
           /\ playback' # playback
    /\ UNCHANGED <<subframeOffsetValue, status, cvars, sfvars, stagevars,
                   callvars, op>>

NextPlayback ==
    \/ SetSubframeOffset
    \/ resetSubframeOffset
    \/ ReadStatus
    \/ Advance
    \/ Manage

SpecPlayback == Init /\ [][NextPlayback]_vars

-----------------------------------------------------------------------------
(* calculateSubframeOffsets and calculateSubframeWeights exercised on      *)
(* resolved configurations.                                                *)

\* Largest sample count requested.
MaxBlurSamples == 5

\* Options the sub-frame plan is computed for: every sample count up to the
\* bound, shutter angles from closed to fully open (and the default), every
\* curve, every shutter position, and explicit phases.
SubframeOptionInputs ==
    [enabled : {{}},
     samples : {{Num(n)} : n \in 1..MaxBlurSamples},
     quality : {{}},
     shutterAngle : {{}, {0}, {Num(90)}, {Num(360)}},
     shutterCurve : {{}, {"triangle"}, {"gaussian"}},
     shutterPosition : PositionInputs,
     adaptiveSampling : {{}},
     adaptiveMinSamples : {{}},
     shutterPhase : {{}, {Num(-135)}, {Num(45)}}]

InitSubframes ==
    /\ given = TRUE
    /\ options \in SubframeOptionInputs
    /\ config = DEFAULT_MOTION_BLUR_CONFIG
    /\ config2 = DEFAULT_MOTION_BLUR_CONFIG
    /\ cstep = "input"
    /\ PlaybackInit
    /\ SubframesInit
    /\ RequestInit
    /\ StageInit
    /\ CallsInit

\* subframeOffsets = calculateSubframeOffsets(config, 1 / fps)
CalculateOffsets ==
    /\ cstep = "resolved"
    /\ \E fps \in FrameRates :
           /\ frameDuration' = FDiv(FInt(1), FInt(fps))
           /\ subframeOffsets' = calculateSubframeOffsets(config, frameDuration')
    /\ UNCHANGED <<cvars, subframeWeights, fnvars, pbvars, stagevars,
                   callvars, op>>

\* subframeWeights = calculateSubframeWeights(config)
CalculateWeights ==
    /\ cstep = "resolved"
    /\ subframeWeights' = calculateSubframeWeights(config)
    /\ UNCHANGED <<cvars, frameDuration, subframeOffsets, fnvars, pbvars,
                   stagevars, callvars, op>>

NextSubframes == Resolve \/ CalculateOffsets \/ CalculateWeights

SpecSubframes == InitSubframes /\ [][NextSubframes]_vars

-----------------------------------------------------------------------------
(* calculateAdaptiveSamples exercised on resolved configurations.          *)

\* Velocities in pixels per frame, and thresholds: 50 is the default.
Velocities == {0, 10, 24, 25, 50, 51, 100}

Thresholds == {20, 50}

\* Options with adaptive sampling absent, off and on, sample counts from 1 to
\* the largest preset, and adaptiveMinSamples absent, below, inside and above
\* the sample counts, and fractional.
AdaptiveOptionInputs ==
    [enabled : {{}},
     samples : {{}, {Num(1)}, {Num(4)}, {Num(16)}},
     quality : {{}, {"low"}, {"ultra"}},
     shutterAngle : {{}},
     shutterCurve : {{}},
     shutterPosition : {{}},
     adaptiveSampling : {{}, {FALSE}, {TRUE}},
     adaptiveMinSamples : MinSamplesInputs \cup {{Num(8)}},
     shutterPhase : {{}}]

InitAdaptive ==
    /\ given = TRUE
    /\ options \in AdaptiveOptionInputs
    /\ config = DEFAULT_MOTION_BLUR_CONFIG
    /\ config2 = DEFAULT_MOTION_BLUR_CONFIG
    /\ cstep = "input"
    /\ PlaybackInit
    /\ SubframesInit
    /\ RequestInit
    /\ StageInit
    /\ CallsInit

\* adaptive.result = calculateAdaptiveSamples(config, velocity, threshold)
CalculateAdaptive ==
    /\ cstep = "resolved"
    /\ \E velocity \in Velocities, threshold \in Thresholds :
           adaptive' =
               [called |-> TRUE, velocity |-> velocity, threshold |-> threshold,
                result |-> calculateAdaptiveSamples(
                               config, FInt(velocity), FInt(threshold))]
    /\ UNCHANGED <<cvars, planvars, description, validation, pbvars, stagevars,
                   callvars, op>>

NextAdaptive == Resolve \/ CalculateAdaptive

SpecAdaptive == InitAdaptive /\ [][NextAdaptive]_vars

-----------------------------------------------------------------------------
(* describeMotionBlurConfig exercised on resolved configurations.          *)

\* description = describeMotionBlurConfig(config)
Describe ==
    /\ cstep = "resolved"
    /\ description = {}
    /\ description' = {describeMotionBlurConfig(config)}
    /\ UNCHANGED <<cvars, planvars, adaptive, validation, pbvars, stagevars,
                   callvars, op>>

NextDescribe == Resolve \/ Describe

SpecDescribe == InitConfig /\ [][NextDescribe]_vars

-----------------------------------------------------------------------------
(* validateRenderRequest exercised on request bodies.                      *)

CallbackUrlInputs ==
    {Undefined, Number(123), Str("not-a-valid-url"), Str("ftp://example.com"),
     Str("http://example.com/callback"), Str("https://example.com/callback")}

VariablesInputs ==
    {Undefined, Null, Str("string"),
     Object([key |-> Str("value"), num |-> Number(42)])}

StreamProgressInputs == {Undefined, Str("yes"), Bool(TRUE)}

OutFileInputs ==
    {Undefined, Number(1), Str("video.avi"), Str("mp4"), Str("video.mp4"),
     Str("video.webm"), Str("video.mov")}

OutDirInputs == {Undefined, Number(1), Str("./output")}

WorkersInputs ==
    {Undefined, Str("4"), Halves(5), Number(0), Number(100), Number(1),
     Number(32)}

LogProgressInputs == {Undefined, Str("yes"), Bool(FALSE)}

ViteBasePortInputs == {Undefined, Number(0), Number(70000), Number(9000)}

ExporterInputs ==
    {Undefined, Null, Str("ffmpeg")}
        \cup {Object([name |-> name, options |-> options_]) :
                  name \in {Undefined, Number(1), Str("invalid-exporter"),
                            Str("@revideo/core/wasm")},
                  options_ \in {Undefined, Null}
                      \cup {Object([format |-> format]) :
                                format \in {Undefined, Str("avi"), Str("mp4")}}}

ProjectSizeInputs ==
    {Undefined, Str("1920x1080")}
        \cup {Object([x |-> x, y |-> y]) :
                  x \in {Undefined, Number(-100), Number(1920)},
                  y \in {Undefined, Number(0), Number(1080)}}

RangeInputs ==
    {Undefined, Str("0-10"),
     Array(<<Number(0)>>),
     Array(<<Number(0), Number(10)>>),
     Array(<<Number(0), Infinity>>),
     Array(<<Number(10), Number(5)>>),
     Array(<<Number(-1), Number(5)>>),
     Array(<<Number(-1), Number(-5)>>),
     Array(<<Str("0"), Number(5)>>),
     Array(<<Number(0), Str("10")>>)}

ProjectSettingsOf(exporter, background_, size_, range) ==
    Object([exporter |-> exporter, background |-> background_, size |-> size_,
            range |-> range])

\* Every input of one field with the other fields absent, and every
\* combination of an absent, a rejected and an accepted input of each field.
ProjectSettingsInputs ==
    {Null, Str("invalid")}
        \cup {ProjectSettingsOf(exporter, Undefined, Undefined, Undefined) :
                  exporter \in ExporterInputs}
        \cup {ProjectSettingsOf(Undefined, Undefined, size_, Undefined) :
                  size_ \in ProjectSizeInputs}
        \cup {ProjectSettingsOf(Undefined, Undefined, Undefined, range) :
                  range \in RangeInputs}
        \cup {ProjectSettingsOf(exporter, background_, size_, range) :
                  exporter \in {Undefined, Null,
                                Object([name |-> Str("@revideo/core/ffmpeg"),
                                        options |-> Object([format |-> Str("proRes")])])},
                  background_ \in {Undefined, Number(0), Str("#000000")},
                  size_ \in {Undefined, Str("1920x1080"),
                             Object([x |-> Number(1920), y |-> Number(1080)])},
                  range \in {Undefined, Array(<<Number(10), Number(5)>>),
                             Array(<<Number(0), Number(10)>>)}}

SettingsOf(outFile, outDir, workers, logProgress, viteBasePort, projectSettings) ==
    Object([outFile |-> outFile, outDir |-> outDir, workers |-> workers,
            logProgress |-> logProgress, viteBasePort |-> viteBasePort,
            projectSettings |-> projectSettings])

\* The settings of the test that collects multiple errors.
TwoBadSettings ==
    SettingsOf(Str("video.avi"), Undefined, Number(100), Undefined, Undefined,
               Undefined)

SettingsInputsOfRequest ==
    {Null, Str("invalid")}
        \cup {SettingsOf(outFile, outDir, workers, logProgress, viteBasePort,
                         Undefined) :
                  outFile \in OutFileInputs, outDir \in OutDirInputs,
                  workers \in WorkersInputs, logProgress \in LogProgressInputs,
                  viteBasePort \in ViteBasePortInputs}
        \cup {SettingsOf(outFile, Undefined, workers, Undefined, Undefined,
                         projectSettings) :
                  outFile \in {Undefined, Str("video.avi")},
                  workers \in {Undefined, Number(100)},
                  projectSettings \in ProjectSettingsInputs}

BodyOf(callbackUrl, variables, streamProgress, settings) ==
    Object([callbackUrl |-> callbackUrl, variables |-> variables,
            streamProgress |-> streamProgress, settings |-> settings])

\* Bodies that are not objects, an empty object, an array, every combination
\* of the three fields of the body itself, and every settings input in a body
\* whose own fields are all absent or all invalid.
BodyInputs ==
    {Undefined, Null, Str("not an object"), Str(""), Number(0), Number(1),
     Bool(FALSE), Bool(TRUE), Object(<<>>), Array(<<>>)}
        \cup {BodyOf(callbackUrl, variables, streamProgress, settings) :
                  callbackUrl \in CallbackUrlInputs,
                  variables \in VariablesInputs,
                  streamProgress \in StreamProgressInputs,
                  settings \in {Undefined, Null, TwoBadSettings}}
        \cup {BodyOf(Undefined, Undefined, Undefined, settings) :
                  settings \in SettingsInputsOfRequest}
        \cup {BodyOf(Number(123), Null, Str("yes"), settings) :
                  settings \in SettingsInputsOfRequest}

InitValidation ==
    /\ given = FALSE
    /\ options = NoOptions
    /\ config = DEFAULT_MOTION_BLUR_CONFIG
    /\ config2 = DEFAULT_MOTION_BLUR_CONFIG
    /\ cstep = "input"
    /\ PlaybackInit
    /\ SubframesInit
    /\ validation \in {[body |-> body, result |-> {}] : body \in BodyInputs}
    /\ StageInit
    /\ CallsInit

\* result = validateRenderRequest({body})
Validate ==
    /\ validation.result = {}
    /\ validation' =
           [validation EXCEPT !.result = {validateRenderRequest(validation.body)}]
    /\ UNCHANGED <<cvars, planvars, adaptive, description, pbvars, stagevars,
                   callvars, op>>

NextValidation == Validate

SpecValidation == InitValidation /\ [][NextValidation]_vars

-----------------------------------------------------------------------------
(* Properties of resolveMotionBlurConfig, checked under SpecConfig.        *)

\* C1: resolveMotionBlurConfig is idempotent: resolving an already resolved
\* config returns it unchanged, field by field, for every partial options
\* object (explicit zeros included).
C1_ResolveIdempotent == cstep = "reresolved" => config2 = config

\* C2: every resolved config is in range: samples is an integer in [1,64],
\* shutterAngle is in [0,720], shutterPhase is in [-360,360] and
\* adaptiveMinSamples is an integer >= 1.
C2_ResolvedInRange ==
    cstep # "input" =>
        /\ IsInteger(config.samples)
        /\ Num(1) <= config.samples /\ config.samples <= Num(64)
        /\ 0 <= config.shutterAngle /\ config.shutterAngle <= Num(720)
        /\ Num(-360) <= config.shutterPhase /\ config.shutterPhase <= Num(360)
        /\ IsInteger(config.adaptiveMinSamples)
        /\ config.adaptiveMinSamples >= Num(1)

\* C3: an explicitly supplied samples value always takes precedence over
\* quality: whenever options.samples is present, whatever its value, the
\* resolved samples is clamp(round(options.samples), 1, 64).
C3_SamplesOverQuality ==
    (cstep # "input" /\ given /\ Has(options.samples)) =>
        config.samples = Max(Num(1), Min(Num(64), MathRound(Val(options.samples))))

\* C4: an explicitly supplied shutterPhase is used directly: whenever
\* options.shutterPhase is present, whatever its value and whether or not
\* shutterPosition is supplied, the resolved shutterPhase is
\* options.shutterPhase clamped to [-360,360].
C4_ExplicitPhaseUsed ==
    (cstep # "input" /\ given /\ Has(options.shutterPhase)) =>
        config.shutterPhase =
            Max(Num(-360), Min(Num(360), Val(options.shutterPhase)))

\* The phase the documentation gives for a shutter position and an angle a
\* (in halves): center -a/2, start 0, end -a.
PositionPhase(position, a) ==
    IF position = "center" THEN -(a \div 2)
    ELSE IF position = "start" THEN 0
    ELSE -a

\* C5: when shutterPosition is supplied and shutterPhase is not, the resolved
\* shutterPhase is derived from the position and the shutter angle (explicit,
\* or the default 180), clamped to [-360,360]; with the default angle it is
\* -90 for center, 0 for start and -180 for end.
C5_PhaseFromPosition ==
    (cstep # "input" /\ given /\ Has(options.shutterPosition)
        /\ ~Has(options.shutterPhase)) =>
        LET position == Val(options.shutterPosition)
            a == IF Has(options.shutterAngle)
                 THEN Val(options.shutterAngle) ELSE Num(180)
        IN  /\ config.shutterPhase =
                   Max(Num(-360), Min(Num(360), PositionPhase(position, a)))
            /\ ~Has(options.shutterAngle) =>
                   config.shutterPhase =
                       CASE position = "center" -> Num(-90)
                         [] position = "start" -> 0
                         [] position = "end" -> Num(-180)

\* C5 witness: 'end' with an explicit angle of 800 and no explicit phase has
\* been resolved, and the derived -800 was clamped to -360.
C5_Witness ==
    /\ cstep = "resolved" /\ given
    /\ options.shutterPosition = {"end"}
    /\ options.shutterPhase = {}
    /\ options.shutterAngle = {Num(800)}
    /\ config.shutterPhase = Num(-360)

-----------------------------------------------------------------------------
(* Properties of the Stage, checked under Spec.                            *)

\* The channels of the visible render target computed from per-channel sums.
Rounded(sums) == [j \in 1..Len(sums) |-> ToPixel(sums[j])]

\* A renderWithMotionBlur call has just resolved, and during it the stage was
\* not resized and no other accumulation operation ran.
ResolvedUndisturbed ==
    op.name = "renderWithMotionBlur" /\ op.outcome = "resolved" /\ op.clean

\* C6 as stated: on completion of an undisturbed call with non-empty,
\* equal-length offsets and weights, every channel of the visible render
\* target equals round(clamp(sum of weights[i] * p_i, 0, 255)), p_i being the
\* channel's value when callback i completed.
C6_ExactWeightedSum ==
    ResolvedUndisturbed => op.wrote /\ pixels = Rounded(op.exact)

\* C6 amended: on completion of an undisturbed call every channel equals
\* round(clamp(A_n, 0, 255)) where A_0 = 0 and A_i is A_(i-1) + weights[i] * p_i
\* rounded to single precision (the Float32Array element), p_i as above.
C6_Float32WeightedSum ==
    ResolvedUndisturbed => op.wrote /\ pixels = Rounded(op.facc)

\* C6 witness: an undisturbed two-sample call has resolved with weights just
\* above and just below 1/2 on channel values 200 and 201; the exact sum is
\* below 200.5 while the single-precision sum is 200.5, written as 201.
C6_Witness ==
    /\ ResolvedUndisturbed
    /\ op.wrote
    /\ Len(op.log) = 9
    /\ op.exact[1] = 200 * NearHalfHi + 201 * NearHalfLo
    /\ ToPixel(op.exact[1]) = 200
    /\ pixels[1] = 201

\* The events of a complete call of n sub-frames: begin; then for each i the
\* callback is invoked, completes, and its sample is accumulated; finalize;
\* the promise resolves.
Iteration(i) == <<<<"callback", i>>, <<"completed", i>>, <<"accumulate", i>>>>

RECURSIVE Iterations(_)
Iterations(n) == IF n = 0 THEN <<>> ELSE Iterations(n - 1) \o Iteration(n)

CallEvents(n) ==
    <<<<"begin", 0>>>> \o Iterations(n) \o <<<<"finalize", 0>>, <<"resolve", 0>>>>

IsPrefix(s, t) == Len(s) <= Len(t) /\ s = SubSeq(t, 1, Len(s))

\* C7: the events of one renderWithMotionBlur call are totally ordered: begin
\* precedes the first callback; callback i is invoked only after callback
\* i-1 completed and accumulate(weights[i-1]) ran, so exactly one callback is
\* in flight while the call is suspended; accumulate(weights[i]) follows the
\* completion of callback i; finalize runs once after the last accumulate;
\* the promise resolves only after finalize.
C7_TotalOrder ==
    /\ \A c \in Calls :
           pc[c] # "idle" =>
               /\ 1 <= idx[c] /\ idx[c] <= Len(args[c].offsets)
               /\ IsPrefix(log[c], CallEvents(Len(args[c].offsets)))
               /\ Len(log[c]) = 3 * idx[c] - 1
               /\ log[c][Len(log[c])] = <<"callback", idx[c]>>
               /\ clean[c] => accumulationSamples = idx[c] - 1
    /\ (op.name = "renderWithMotionBlur" /\ op.outcome = "resolved") =>
           /\ Len(op.log) % 3 = 0
           /\ op.log = CallEvents((Len(op.log) - 3) \div 3)
           /\ op.clean => accumulationSamples = (Len(op.log) - 3) \div 3
    /\ (op.name = "renderWithMotionBlur" /\ op.outcome = "rejected") =>
           \E n \in 1..MaxSamples :
               /\ IsPrefix(op.log, CallEvents(n))
               /\ Len(op.log) <= 3 * n + 1

\* C7 witness: a call of two sub-frames has resolved; its nine events are
\* on record, finalize and resolve last.
C7_Witness ==
    /\ op.name = "renderWithMotionBlur" /\ op.outcome = "resolved"
    /\ Len(op.log) = 9
    /\ op.log[8] = <<"finalize", 0>>
    /\ op.log[9] = <<"resolve", 0>>

\* C8: renderWithMotionBlur called with empty offsets, or with offsets and
\* weights of different lengths, is a no-op: no callback is invoked, begin,
\* accumulate and finalize are not run, the accumulation buffer, the sample
\* counter and the visible render target stay unchanged and the call
\* completes without error; only calls with non-empty, equal-length
\* arguments get past the guard.
C8_GuardNoOp ==
    [][/\ (op'.name = "renderWithMotionBlur" /\ op'.outcome = "noop") =>
              /\ UNCHANGED <<stagevars, callvars>>
              /\ ~op'.threw
       /\ \A c \in Calls :
              pc'[c] # "idle" =>
                  /\ Len(args'[c].offsets) > 0
                  /\ Len(args'[c].offsets) = Len(args'[c].weights)]_vars

\* C8 witness: a call with invalid arguments has returned while the
\* accumulation buffer held an accumulated sample.
C8_Witness ==
    /\ op.name = "renderWithMotionBlur" /\ op.outcome = "noop"
    /\ Has(accumulationBuffer)
    /\ accumulationSamples = 1
    /\ Val(accumulationBuffer) # Zeros(Len(Val(accumulationBuffer)))

\* C9: a configure call that changes the size or the resolution scale, in any
\* lifecycle state, discards the accumulation buffer without throwing; while
\* the buffer is missing, accumulate and finalize (direct, or run by a call
\* resumed after the resize) change nothing and do not throw; the next begin
\* allocates a zero-filled buffer of width * height * 4 entries for the new
\* canvas size and restarts the sample counter.
C9_ResizeDiscards ==
    [][/\ (size' # size \/ resolutionScale' # resolutionScale) =>
              accumulationBuffer' = {} /\ ~op'.threw
       /\ (accumulationBuffer = {}
              /\ (Accumulate \/ Finalize \/ CallbackResolve(Calls))) =>
              /\ UNCHANGED <<accumulationBuffer, accumulationSamples, pixels>>
              /\ ~op'.threw
       /\ (accumulationBuffer = {} /\ accumulationBuffer' # {}) =>
              /\ accumulationBuffer' =
                     {Zeros(size'[1] * resolutionScale'
                                * size'[2] * resolutionScale' * 4)}
              /\ accumulationSamples' = 0]_vars

\* C9 witness: the stage was resized while the first callback of a call was
\* suspended; the call resumed, its accumulate was a no-op, and the second
\* callback is now suspended with the buffer still missing.
C9_Witness ==
    \E c \in Calls :
        /\ pc[c] = "await"
        /\ idx[c] = 2
        /\ accumulationBuffer = {}
        /\ accumulationSamples = 0
        /\ size # <<0, 0>>

\* C10: after finalizeMotionBlur has written its result the sample counter is
\* 0 again, so that a second finalizeMotionBlur issued without an intervening
\* begin and accumulate is a no-op and cannot overwrite what was drawn on the
\* visible render target after the first finalize.
C10_FinalizeReturnsToIdle ==
    (op.name = "finalize" /\ op.wrote) => accumulationSamples = 0

\* A step of renderWithMotionBlur resumed after an await that did not end in
\* a rejection: accumulateMotionBlurSample(weights[i]) has run.
ResumedAccumulate(c) ==
    /\ resume(c) /\ UNCHANGED libvars
    /\ ~(op'.name = "renderWithMotionBlur" /\ op'.outcome = "rejected")

\* C11: after beginMotionBlurAccumulation, in any prior state, the buffer
\* exists, has width * height * 4 entries for the current canvas size, every
\* entry is 0 and the sample counter is 0; a second begin before any
\* accumulate leaves the same state as the first.
C11_BeginResets ==
    [][Begin =>
           /\ Has(accumulationBuffer')
           /\ Len(Val(accumulationBuffer')) =
                  size[1] * resolutionScale * size[2] * resolutionScale * 4
           /\ \A i \in 1..Len(Val(accumulationBuffer')) :
                  Val(accumulationBuffer')[i] = 0
           /\ accumulationSamples' = 0
           /\ beginMotionBlurAccumulation(accumulationBuffer', size',
                                          resolutionScale') = accumulationBuffer'
           /\ UNCHANGED <<size, resolutionScale, pixels>>]_vars

\* C11 witness: the second callback of a call is suspended, so a sample was
\* accumulated on a 2x2 canvas, and a begin has since cleared the buffer and
\* the counter.
C11_Witness ==
    /\ pc[1] = "await" /\ idx[1] = 2
    /\ canvasSize(size, resolutionScale) = <<2, 2>>
    /\ Has(accumulationBuffer)
    /\ Val(accumulationBuffer) = Zeros(16)
    /\ accumulationSamples = 0

\* accumulateMotionBlurSample(weight) has added pixel * weight to the entry
\* of every channel, counted one sample and left the render target alone.
SampleAdded(weight) ==
    /\ Has(accumulationBuffer')
    /\ Len(Val(accumulationBuffer')) = Len(Val(accumulationBuffer))
    /\ Len(pixels) = Len(Val(accumulationBuffer))
    /\ \A i \in 1..Len(pixels) :
           Val(accumulationBuffer')[i] =
               Fround(Val(accumulationBuffer)[i] + pixels[i] * weight)
    /\ accumulationSamples' = accumulationSamples + 1

\* C12 as stated: accumulateMotionBlurSample(weight) with a buffer present
\* adds pixel * weight to the entry of every channel of every pixel,
\* increments the sample counter by exactly 1 and does not modify the visible
\* render target; with no buffer present it changes nothing.
C12_AccumulateAdds ==
    [][Accumulate =>
           IF Has(accumulationBuffer)
           THEN (\E weight \in DirectWeights : SampleAdded(weight))
                    /\ pixels' = pixels /\ ~op'.threw
           ELSE UNCHANGED <<accumulationBuffer, accumulationSamples, pixels>>
                    /\ ~op'.threw]_vars

\* What accumulateMotionBlurSample does do (C12 restricted): the statement of
\* C12 holds on a canvas of non-zero width and height, for direct calls and
\* for the accumulate run by renderWithMotionBlur; on a canvas of zero width
\* or height (a Stage never configured) with a buffer present the call
\* throws and changes nothing.
AccumulateAddsOnCanvas ==
    [][/\ Accumulate =>
              IF ~Has(accumulationBuffer)
              THEN UNCHANGED <<accumulationBuffer, accumulationSamples, pixels>>
                       /\ ~op'.threw
              ELSE IF canvasSize(size, resolutionScale)[1] = 0
                          \/ canvasSize(size, resolutionScale)[2] = 0
              THEN UNCHANGED <<accumulationBuffer, accumulationSamples, pixels>>
                       /\ op'.threw
              ELSE (\E weight \in DirectWeights : SampleAdded(weight))
                       /\ pixels' = pixels /\ ~op'.threw
       /\ \A c \in Calls :
              ResumedAccumulate(c) =>
                  IF Has(accumulationBuffer)
                  THEN /\ SampleAdded(args[c].weights[idx[c]])
                       /\ pc'[c] = "await" => pixels' = pixels
                  ELSE UNCHANGED <<accumulationBuffer, accumulationSamples,
                                   pixels>>]_vars

\* A state in which AccumulateAddsOnCanvas was exercised: with no call in
\* flight, one direct accumulate of weight 1 has copied a rendered picture
\* into a cleared buffer of a 1x1 canvas.
AccumulatedOnce ==
    /\ \A c \in Calls : pc[c] = "idle"
    /\ op = NoOp
    /\ accumulationSamples = 1
    /\ Len(pixels) = 4
    /\ pixels = Image(3, 4)
    /\ accumulationBuffer = {[i \in 1..4 |-> pixels[i] * One]}

\* v (in units of 2^-17) clamped to [0,255] and rounded to the nearest
\* integer r, halves upward.
IsClampedRound(v, r) ==
    LET c == IF v < 0 THEN 0 ELSE IF v > 255 * One THEN 255 * One ELSE v
    IN  /\ r \in 0..255
        /\ One < 2 * (r * One - c) + 2 * One
        /\ 2 * (r * One - c) <= One

\* C13: finalizeMotionBlur leaves the visible render target unchanged when no
\* buffer exists or the sample counter is 0; otherwise it replaces every
\* channel of every pixel with the accumulated value clamped to [0,255] and
\* rounded to the nearest integer, an integer in 0..255.
C13_FinalizeWrites ==
    [][(Finalize \/ \E c \in Calls : ResumedAccumulate(c) /\ pc'[c] = "idle") =>
           IF ~Has(accumulationBuffer') \/ accumulationSamples' = 0
           THEN pixels' = pixels /\ ~op'.wrote
           ELSE /\ op'.wrote
                /\ Len(pixels') = Len(pixels)
                /\ Len(pixels') = Len(Val(accumulationBuffer'))
                /\ \A i \in 1..Len(pixels') :
                       IsClampedRound(Val(accumulationBuffer')[i], pixels'[i])]_vars

\* C13 witness: a finalize has written a render target in which an
\* accumulated value above 255 became 255 and a negative one became 0.
C13_Witness ==
    /\ op.wrote
    /\ Has(accumulationBuffer)
    /\ accumulationSamples > 0
    /\ \E i \in 1..Len(pixels) :
           Val(accumulationBuffer)[i] > 255 * One /\ pixels[i] = 255
    /\ \E i \in 1..Len(pixels) :
           Val(accumulationBuffer)[i] < 0 /\ pixels[i] = 0

-----------------------------------------------------------------------------
(* PlaybackStatus                                                          *)

\* C14: time is framesToSeconds(playback.frame) + subframeOffset in every
\* state, and that is what a read returns; subframeOffset is 0 at
\* construction, becomes the given value in setSubframeOffset and 0 in
\* resetSubframeOffset, and no other step (a read of the getters, the
\* PlaybackManager advancing or being changed) alters it; after
\* resetSubframeOffset time is exactly the frame-derived time.
C14_OffsetOnlyBySetAndReset ==
    /\ subframeOffsetValue = FInt(0)
    /\ [][/\ time(playback', subframeOffsetValue')
              = FAdd(FDiv(FInt(playback'.frame), FInt(playback'.fps)),
                     subframeOffsetValue')
          /\ ReadStatus =>
                 /\ status'.subframeOffset = subframeOffsetValue
                 /\ status'.time
                      = FAdd(FDiv(FInt(playback.frame), FInt(playback.fps)),
                             subframeOffsetValue)
          /\ \A offset \in SubframeOffsetInputs :
                 setSubframeOffset(offset) => subframeOffsetValue' = offset
          /\ resetSubframeOffset =>
                 /\ subframeOffsetValue' = FInt(0)
                 /\ time(playback', subframeOffsetValue')
                      = FDiv(FInt(playback.frame), FInt(playback.fps))
          /\ subframeOffsetValue' # subframeOffsetValue =>
                 SetSubframeOffset \/ resetSubframeOffset
          /\ ReadStatus \/ Advance \/ Manage =>
                 subframeOffsetValue' = subframeOffsetValue]_vars

\* A non-zero offset was set, the PlaybackManager advanced and the getters
\* were read: the time read is off the frame-derived time by the offset, which
\* is still in place.
C14_Witness ==
    /\ subframeOffsetValue # FInt(0)
    /\ playback.frame = 2
    /\ status.frame = 2
    /\ status.subframeOffset = subframeOffsetValue
    /\ status.time # framesToSeconds(playback, FInt(2))
    /\ status.time
         = FAdd(framesToSeconds(playback, FInt(2)), subframeOffsetValue)

\* C15: setSubframeOffset and resetSubframeOffset leave the PlaybackManager
\* as it is, so frame, speed, fps, state and deltaTime read the same before
\* and after the call, and every read returns the PlaybackManager's values.
C15_OffsetLeavesPlayback ==
    [][/\ SetSubframeOffset \/ resetSubframeOffset =>
              LET before == Getters(playback, subframeOffsetValue)
                  after == Getters(playback', subframeOffsetValue')
              IN  /\ playback' = playback
                  /\ after.frame = before.frame
                  /\ after.speed = before.speed
                  /\ after.fps = before.fps
                  /\ after.state = before.state
                  /\ after.deltaTime = before.deltaTime
       /\ ReadStatus =>
              /\ status'.frame = playback.frame
              /\ status'.speed = playback.speed
              /\ status'.fps = playback.fps
              /\ status'.state = playback.state
              /\ status'.deltaTime
                   = FMul(FDiv(FInt(1), FInt(playback.fps)),
                          FInt(playback.speed))]_vars

\* The getters were read at frame 1, playing at double speed and 24 frames
\* per second, while a non-zero offset was set: they report the
\* PlaybackManager's values.
C15_Witness ==
    /\ subframeOffsetValue # FInt(0)
    /\ status.subframeOffset = subframeOffsetValue
    /\ playback = [frame |-> 1, speed |-> 2, fps |-> 24, state |-> "Playing"]
    /\ status.frame = 1
    /\ status.speed = 2
    /\ status.fps = 24
    /\ status.state = "Playing"
    /\ status.deltaTime = FDiv(FInt(1), FInt(12))

-----------------------------------------------------------------------------
(* Sub-frame weights and offsets                                           *)

\* The value of a in units of 2^u, for a an exact multiple of that unit.
Units(a, u) ==
    IF a[2] >= u THEN a[1] * Pow2(a[2] - u) ELSE a[1] \div Pow2(u - a[2])

IsMultiple(a, u) == a[2] >= u \/ a[1] % Pow2(u - a[2]) = 0

\* Weights are compared in units of 2^WeightUnit; 1.0 is OneWeight units and
\* the machine epsilon 2^(1-Precision) is EpsWeight units.
WeightUnit == -(Precision + 8)

OneWeight == Pow2(Precision + 8)

EpsWeight == Pow2(9)

\* The exact sum of the first n weights, in units.
RECURSIVE SumUnits(_, _)
SumUnits(w, n) ==
    IF n = 0 THEN 0 ELSE SumUnits(w, n - 1) + Units(w[n], WeightUnit)

WeightsComputed == cstep = "resolved" /\ subframeWeights # <<>>

WeightsShape ==
    /\ Len(subframeWeights) = SampleCount(config)
    /\ \A k \in 1..Len(subframeWeights) :
           /\ subframeWeights[k][1] >= 0
           /\ IsMultiple(subframeWeights[k], WeightUnit)
    /\ SampleCount(config) = 1 => subframeWeights = <<FInt(1)>>

\* C16 as stated: calculateSubframeWeights returns `samples` weights, none
\* negative, whose sum is 1, and the single weight of samples = 1 is exactly 1.
C16_WeightsSumToOne ==
    WeightsComputed =>
        /\ WeightsShape
        /\ SumUnits(subframeWeights, Len(subframeWeights)) = OneWeight
        /\ SumOf(subframeWeights, Len(subframeWeights)) = FInt(1)

\* C16 amended: calculateSubframeWeights returns `samples` weights, none
\* negative, whose sum is 1 within floating-point rounding, that is within
\* samples times the machine epsilon, whether the sum is taken exactly or
\* by floating-point addition; the single weight of samples = 1 is exactly 1.
C16_WeightsSumNearOne ==
    WeightsComputed =>
        LET n == Len(subframeWeights)
        IN  /\ WeightsShape
            /\ Abs(SumUnits(subframeWeights, n) - OneWeight) <= n * EpsWeight
            /\ Abs(Units(SumOf(subframeWeights, n), WeightUnit) - OneWeight)
                  <= n * EpsWeight

\* Triangle weights of three samples were computed, and their sum is not 1.
C16_Witness ==
    /\ WeightsComputed
    /\ config.shutterCurve = "triangle"
    /\ SampleCount(config) = 3
    /\ Len(subframeWeights) = 3
    /\ SumUnits(subframeWeights, 3) # OneWeight
    /\ SumOf(subframeWeights, 3) # FInt(1)

\* Distance of the 1-based index k from the middle index of n samples, doubled.
FromCentre(k, n) == Abs(2 * (k - 1) - (n - 1))

\* C17: for an odd sample count the triangle and the gaussian weights are
\* largest at the middle index and do not increase with the distance from it:
\* w[i] >= w[j] whenever |i - center| <= |j - center|.
C17_PeakAtCentre ==
    (/\ WeightsComputed
     /\ SampleCount(config) % 2 = 1
     /\ config.shutterCurve \in {"triangle", "gaussian"}) =>
        LET n == SampleCount(config)
        IN  /\ Len(subframeWeights) = n
            /\ \A i, j \in 1..n :
                   FromCentre(i, n) <= FromCentre(j, n) =>
                       FLeq(subframeWeights[j], subframeWeights[i])

\* Gaussian weights of five samples were computed: they fall strictly from
\* the middle to both edges and are mirror images.
C17_Witness ==
    /\ WeightsComputed
    /\ config.shutterCurve = "gaussian"
    /\ SampleCount(config) = 5
    /\ Len(subframeWeights) = 5
    /\ FLess(subframeWeights[1], subframeWeights[2])
    /\ FLess(subframeWeights[2], subframeWeights[3])
    /\ subframeWeights[4] = subframeWeights[2]
    /\ subframeWeights[5] = subframeWeights[1]

\* exposureTime and phaseOffset of a configuration, as C18 defines them.
ExposureTime(c, fd) == FMul(fd, FDiv(FHalves(c.shutterAngle), FInt(360)))

PhaseOffset(c, fd) == FMul(FDiv(FHalves(c.shutterPhase), FInt(360)), fd)

\* Offsets are compared in units of 2^OffsetUnit(fd), of which every offset,
\* phaseOffset and exposureTime computed for the frame duration fd is an
\* exact multiple.
OffsetUnit(fd) == fd[2] - 8

OffsetsComputed == cstep = "resolved" /\ subframeOffsets # <<>>

OffsetsShape ==
    /\ Len(subframeOffsets) = SampleCount(config)
    /\ \A k \in 1..Len(subframeOffsets) :
           IsMultiple(subframeOffsets[k], OffsetUnit(frameDuration))
    /\ IsMultiple(PhaseOffset(config, frameDuration), OffsetUnit(frameDuration))
    /\ IsMultiple(ExposureTime(config, frameDuration),
                  OffsetUnit(frameDuration))

\* 2 * (n - 1) * (offset_k - (phaseOffset + (i / (n - 1) - 1/2) * exposureTime))
\* for the 0-based index i = k - 1 and n > 1 samples, and offset_k - phaseOffset
\* for n = 1, in units.
OffsetError(offs, c, fd, k) ==
    LET n == Len(offs)
        u == OffsetUnit(fd)
        o == Units(offs[k], u)
        p == Units(PhaseOffset(c, fd), u)
        E == Units(ExposureTime(c, fd), u)
    IN  IF n = 1 THEN o - p
        ELSE 2 * (n - 1) * (o - p) - (2 * (k - 1) - (n - 1)) * E

\* max(|phaseOffset|, exposureTime), in units.
OffsetScale(c, fd) ==
    Max(Abs(Units(PhaseOffset(c, fd), OffsetUnit(fd))),
        Units(ExposureTime(c, fd), OffsetUnit(fd)))

\* (max - min of the offsets at twice the shutter angle) - 2 * (max - min),
\* in units.
SpanDoubling(c, fd) ==
    LET n == SampleCount(c)
        u == OffsetUnit(fd)
        one == calculateSubframeOffsets(c, fd)
        two == calculateSubframeOffsets(
                   [c EXCEPT !.shutterAngle = 2 * c.shutterAngle], fd)
    IN  (Units(two[n], u) - Units(two[1], u))
            - 2 * (Units(one[n], u) - Units(one[1], u))

\* C18 as stated: `samples` offsets, offset_i = phaseOffset
\* + (i/(samples-1) - 1/2)*exposureTime for samples > 1 (so that doubling the
\* shutter angle doubles max - min), and the single offset of samples = 1 is
\* phaseOffset.
C18_OffsetsExact ==
    OffsetsComputed =>
        /\ OffsetsShape
        /\ \A k \in 1..Len(subframeOffsets) :
               OffsetError(subframeOffsets, config, frameDuration, k) = 0
        /\ config.shutterAngle <= Num(360) =>
               SpanDoubling(config, frameDuration) = 0

\* C18 amended: `samples` offsets, each within floating-point rounding of
\* phaseOffset + (i/(samples-1) - 1/2)*exposureTime (of phaseOffset for
\* samples = 1): the difference is at most four machine epsilons of
\* max(|phaseOffset|, exposureTime); doubling the shutter angle doubles
\* max - min within the rounding of the four offsets involved, and a shutter
\* angle of 0 collapses every offset to phaseOffset exactly.
C18_OffsetsWithinRounding ==
    OffsetsComputed =>
        LET n == Len(subframeOffsets)
            scale == OffsetScale(config, frameDuration)
        IN  /\ OffsetsShape
            /\ \A k \in 1..n :
                   Abs(OffsetError(subframeOffsets, config, frameDuration, k))
                           * Pow2(Precision - 3)
                       <= Max(1, 2 * (n - 1)) * scale
            /\ config.shutterAngle <= Num(360) =>
                   Abs(SpanDoubling(config, frameDuration)) * Pow2(Precision - 3)
                       <= 6 * OffsetScale(
                                  [config EXCEPT !.shutterAngle = 2 * @],
                                  frameDuration)
            /\ config.shutterAngle = 0 =>
                   \A k \in 1..n :
                       subframeOffsets[k] = PhaseOffset(config, frameDuration)

\* The offset of a single sample was computed for a 180 degree shutter with
\* phase 45: it is not phaseOffset, but the nearest number after adding and
\* subtracting half the exposure time.
C18_Witness ==
    /\ OffsetsComputed
    /\ SampleCount(config) = 1
    /\ config.shutterAngle = Num(180)
    /\ config.shutterPhase = Num(45)
    /\ Len(subframeOffsets) = 1
    /\ subframeOffsets[1] # PhaseOffset(config, frameDuration)

\* The configuration was resolved from the shutter position `position`, with
\* no explicit shutterPhase, and its offsets were computed.
OffsetsFromPosition(position) ==
    /\ OffsetsComputed
    /\ options.shutterPosition = {position}
    /\ options.shutterPhase = {}

\* The offset of the 1-based index k, and exposureTime, in units.
OffsetAt(k) == Units(subframeOffsets[k], OffsetUnit(frameDuration))

ExposureUnits ==
    Units(ExposureTime(config, frameDuration), OffsetUnit(frameDuration))

\* |x| is at most four machine epsilons of the exposure time (in units): x is
\* zero up to the rounding of the offsets.
Negligible(x) == Abs(x) * Pow2(Precision - 3) <= ExposureUnits

\* C19: resolved from shutterPosition 'center', the offsets are symmetric
\* about 0 (offset_i = -offset_(samples-1-i)) and range from -exposureTime/2
\* to +exposureTime/2, rounding of the offsets allowed for.
C19_CentreStraddles ==
    OffsetsFromPosition("center") =>
        LET n == Len(subframeOffsets)
        IN  /\ \A k \in 1..n : Negligible(OffsetAt(k) + OffsetAt(n + 1 - k))
            /\ n > 1 =>
                   /\ Negligible(2 * OffsetAt(1) + ExposureUnits)
                   /\ Negligible(2 * OffsetAt(n) - ExposureUnits)

\* C20: resolved from shutterPosition 'start', the smallest offset is 0 and
\* every offset is >= 0; from 'end', the largest offset is 0 and every offset
\* is <= 0, rounding of the offsets allowed for.
C20_StartEndAtFrame ==
    LET n == Len(subframeOffsets)
    IN  /\ OffsetsFromPosition("start") =>
               /\ Negligible(OffsetAt(1))
               /\ \A k \in 1..n :
                      OffsetAt(k) >= 0 \/ Negligible(OffsetAt(k))
        /\ OffsetsFromPosition("end") =>
               /\ Negligible(OffsetAt(n))
               /\ \A k \in 1..n :
                      OffsetAt(k) <= 0 \/ Negligible(OffsetAt(k))

\* Where the exposure window of each shutter position does lie: 'center'
\* gives offsets from -exposureTime to 0, 'start' from -exposureTime/2 to
\* +exposureTime/2, and 'end' from -3/2 exposureTime to -exposureTime/2
\* (a single sample sits in the middle of the window).
PositionWindows ==
    LET n == Len(subframeOffsets)
        Window(lo, hi) ==
            IF n = 1
            THEN Negligible(4 * OffsetAt(1) - (lo + hi) * ExposureUnits)
            ELSE /\ Negligible(2 * OffsetAt(1) - lo * ExposureUnits)
                 /\ Negligible(2 * OffsetAt(n) - hi * ExposureUnits)
    IN  /\ OffsetsFromPosition("center") => Window(-2, 0)
        /\ OffsetsFromPosition("start") => Window(-1, 1)
        /\ OffsetsFromPosition("end") => Window(-3, -1)

\* Offsets of three samples were computed for each shutter position at a
\* 360 degree shutter.
PositionWindowsReached(position) ==
    /\ OffsetsFromPosition(position)
    /\ config.shutterAngle = Num(360)
    /\ Len(subframeOffsets) = 3

-----------------------------------------------------------------------------
(* calculateAdaptiveSamples                                                *)

AdaptiveCalled == cstep = "resolved" /\ adaptive.called

\* calculateAdaptiveSamples(config, velocity, threshold) for integers.
AdaptiveAt(velocity, threshold) ==
    calculateAdaptiveSamples(config, FInt(velocity), FInt(threshold))

\* C21: with adaptiveSampling true and velocity >= threshold the result is
\* exactly config.samples; with adaptiveSampling false it is config.samples
\* for every velocity.
C21_FullSamplesAtThreshold ==
    AdaptiveCalled =>
        /\ (config.adaptiveSampling /\ adaptive.velocity >= adaptive.threshold)
               => adaptive.result = config.samples
        /\ ~config.adaptiveSampling => adaptive.result = config.samples

\* C22: with adaptive sampling on, the result is non-decreasing in velocity,
\* is exactly adaptiveMinSamples at velocity 0 and is never less than
\* adaptiveMinSamples.
C22_AdaptiveMonotone ==
    (AdaptiveCalled /\ config.adaptiveSampling) =>
        /\ adaptive.result >= config.adaptiveMinSamples
        /\ adaptive.velocity = 0 => adaptive.result = config.adaptiveMinSamples
        /\ \A v \in Velocities :
               v <= adaptive.velocity =>
                   AdaptiveAt(v, adaptive.threshold) <= adaptive.result

\* What calculateAdaptiveSamples does do.  The result is never below
\* adaptiveMinSamples, and is config.samples when adaptive sampling is off.
\* When adaptiveMinSamples is an integer not above samples, the result is
\* samples from the threshold on, adaptiveMinSamples at velocity 0, and
\* non-decreasing in velocity.
AdaptiveInRange ==
    AdaptiveCalled =>
        /\ ~config.adaptiveSampling => adaptive.result = config.samples
        /\ config.adaptiveSampling =>
               adaptive.result >= config.adaptiveMinSamples
        /\ (/\ config.adaptiveSampling
            /\ IsInteger(config.adaptiveMinSamples)
            /\ config.adaptiveMinSamples <= config.samples) =>
               /\ adaptive.velocity >= adaptive.threshold =>
                      adaptive.result = config.samples
               /\ adaptive.velocity = 0 =>
                      adaptive.result = config.adaptiveMinSamples
               /\ \A v \in Velocities :
                      v <= adaptive.velocity =>
                          AdaptiveAt(v, adaptive.threshold) <= adaptive.result

\* Adaptive sampling scaled 16 samples down to 9 at half the threshold.
AdaptiveScaled ==
    /\ AdaptiveCalled
    /\ config.adaptiveSampling
    /\ config.samples = Num(16)
    /\ config.adaptiveMinSamples = Num(2)
    /\ adaptive.velocity = 25
    /\ adaptive.threshold = 50
    /\ adaptive.result = Num(9)

-----------------------------------------------------------------------------
(* Error outcomes                                                          *)

\* C23: no operation of the motion-blur subsystem ends in an error outcome:
\* no Stage method throws and no renderWithMotionBlur call is rejected, on
\* any Stage (a never-configured one included) and whatever the sub-frame
\* callback does.
C23_NoErrorOutcome == ~op.threw /\ op.outcome # "rejected"

\* The two ways an operation does end in an error: a renderWithMotionBlur
\* call is rejected with the failure of its callback, after its begin and
\* before any finalize; and accumulateMotionBlurSample throws on a Stage
\* whose canvas has no area.
RejectedByCallback ==
    /\ op.name = "renderWithMotionBlur"
    /\ op.outcome = "rejected"
    /\ canvasSize(size, resolutionScale) = <<2, 2>>
    /\ op.log = <<<<"begin", 0>>, <<"callback", 1>>>>

AccumulateThrew ==
    /\ op.name = "accumulate"
    /\ op.threw
    /\ canvasSize(size, resolutionScale) = <<0, 0>>
    /\ accumulationBuffer = {<<>>}

-----------------------------------------------------------------------------
(* Accumulation cycles                                                     *)

\* A renderWithMotionBlur call passes its guard and begins its cycle.
CycleBegins(c) == pc[c] = "idle" /\ pc'[c] = "await"

\* C29: no samples leak from one accumulation cycle into the next.  Whether
\* the previous cycle was finalized, abandoned by a failing callback or
\* invalidated by a resize (or there was none), a call that begins starts
\* from a zeroed buffer of the canvas size and a counter of 0, and when it
\* completes undisturbed the visible render target holds the rounded sums of
\* its own weighted sub-frames and nothing else.
C29_NoLeakBetweenCycles ==
    /\ [](ResolvedUndisturbed =>
              /\ op.prior \in {"none", "finalized", "abandoned", "resized"}
              /\ op.wrote
              /\ Len(op.facc) = Len(pixels)
              /\ \A j \in 1..Len(pixels) : pixels[j] = ToPixel(op.facc[j]))
    /\ [][\A c \in Calls :
              CycleBegins(c) =>
                  /\ accumulationBuffer' = {Zeros(Len(pixels))}
                  /\ accumulationSamples' = 0
                  /\ facc'[c] = Zeros(Len(pixels))]_vars

\* A two-sample call completed undisturbed on a 2x2 canvas after the cycle
\* before it had been abandoned by a failing callback.
C29_Witness ==
    /\ ResolvedUndisturbed
    /\ op.prior = "abandoned"
    /\ op.wrote
    /\ Len(op.log) = 9
    /\ Len(pixels) = 16
    /\ pixels = Rounded(op.facc)

\* The same after a cycle that was finalized, and after one that a resize
\* invalidated.
CompletedAfter(ending) ==
    /\ ResolvedUndisturbed
    /\ op.prior = ending
    /\ op.wrote
    /\ Len(op.log) = 9

\* C24: accumulation cycles on one Stage never overlap: no two
\* renderWithMotionBlur calls are between their begin and their finalize at
\* the same time, and the output a call finalizes was accumulated from its
\* own sub-frames only.
C24_CyclesNeverOverlap ==
    /\ \A c, d \in Calls :
           c # d => ~(pc[c] # "idle" /\ pc[d] # "idle")
    /\ (op.name = "renderWithMotionBlur" /\ op.outcome = "resolved"
            /\ op.wrote) => op.clean

\* Two cycles overlap: the second caller's call has begun while the first
\* caller's call, two sub-frames long, waits for its second callback.
CyclesOverlap ==
    /\ pc[1] = "await"
    /\ idx[1] = 2
    /\ pc[2] = "await"
    /\ accumulationSamples = 0

\* A call finalized a buffer that another call had reset or added to.
ForeignSamplesWritten ==
    /\ op.name = "renderWithMotionBlur"
    /\ op.outcome = "resolved"
    /\ op.wrote
    /\ ~op.clean
    /\ op.call = 1
    /\ Len(op.log) = 9
    /\ accumulationSamples = 3

-----------------------------------------------------------------------------
(* Stage.configure and the accumulation buffer                             *)

\* C27: a configure call that changes neither size nor resolutionScale
\* leaves the accumulation buffer, its contents and the sample counter as
\* they are, also in the middle of an accumulation cycle; only a resize
\* drops the buffer.
C27_ConfigureKeepsBuffer ==
    [][Configure =>
           IF size' = size /\ resolutionScale' = resolutionScale
           THEN /\ accumulationBuffer' = accumulationBuffer
                /\ accumulationSamples' = accumulationSamples
                /\ clean' = clean
                /\ pixels' = pixels
           ELSE accumulationBuffer' = {}]_vars

\* The stage was reconfigured (color space, background and motion blur, no
\* resize) while a call waited for its second callback: the sample of the
\* first sub-frame is still in the buffer and counted.
C27_Witness ==
    /\ op.name = "configure"
    /\ pc[1] = "await"
    /\ idx[1] = 2
    /\ clean[1]
    /\ colorSpace = "display-p3"
    /\ accumulationSamples = 1
    /\ Has(accumulationBuffer)
    /\ Val(accumulationBuffer) = facc[1]
    /\ \E j \in 1..Len(facc[1]) : facc[1][j] # 0

PhaseOfResolved(c) ==
    clampShutterPhase(calculatePhaseFromPosition(c.shutterPosition, c.shutterAngle))

PositionWithoutPhase ==
    /\ cstep # "input"
    /\ given
    /\ Has(options.shutterPosition)
    /\ ~Has(options.shutterPhase)

\* C30: whenever shutterPosition is supplied and shutterPhase is not, the
\* resolved shutterPhase agrees with the resolved (clamped) shutterAngle and
\* the resolved shutterPosition: clamp(-shutterAngle / 2) for center, 0 for
\* start and clamp(-shutterAngle) for end, for every input shutterAngle.
C30_PhaseAgreesWithResolvedAngle ==
    PositionWithoutPhase => config.shutterPhase = PhaseOfResolved(config)

\* The agreement restricted to input angles that are absent or not negative.
PhaseAgreesFromZeroUp ==
    /\ PositionWithoutPhase
    /\ Has(options.shutterAngle) => Val(options.shutterAngle) >= 0
    => config.shutterPhase = PhaseOfResolved(config)

\* An angle above the range is resolved to 720 and the phase to the limit.
PhaseAgreesAboveRange ==
    /\ PositionWithoutPhase
    /\ options.shutterAngle = {Num(800)}
    /\ options.shutterPosition = {"end"}
    /\ config.shutterAngle = Num(720)
    /\ config.shutterPhase = Num(-360)

\* A negative angle is resolved to 0 while the phase keeps the input's sign.
PhaseFromNegativeAngle ==
    /\ PositionWithoutPhase
    /\ options.shutterAngle = {Num(-10)}
    /\ options.shutterPosition = {"center"}
    /\ config.shutterAngle = 0
    /\ config.shutterPhase = Num(5)

\* The options of the documentation's example, with or without enabled.
DocumentedOptions(enabled) ==
    [NoOptions EXCEPT !.enabled = enabled,
                      !.quality = {"high"},
                      !.shutterCurve = {"gaussian"}]

DocumentedDescription == "Motion blur: 16 samples, 180° shutter, gaussian curve"

\* C26: describeMotionBlurConfig(resolveMotionBlurConfig({quality: 'high',
\* shutterCurve: 'gaussian'})) returns
\* "Motion blur: 16 samples, 180° shutter, gaussian curve".
C26_DocumentedDescription ==
    given /\ options = DocumentedOptions({}) /\ Has(description)
        => Val(description) = DocumentedDescription

\* What the example's call returns.
DescribedAsDisabled ==
    /\ given
    /\ options = DocumentedOptions({})
    /\ description = {"Motion blur disabled"}

\* The documented text is what the same options with enabled: true give.
DescribedWhenEnabled ==
    /\ given
    /\ options = DocumentedOptions({TRUE})
    /\ description = {DocumentedDescription}

\* The value at a path of property names below the body.
RECURSIVE At(_, _)
At(v, path) == IF path = <<>> THEN v ELSE At(Get(v, Head(path)), Tail(path))

\* The fields of a request with a rule of their own, by the name their error
\* carries, with the path of each.
CheckedFields ==
    [callbackUrl |-> <<"callbackUrl">>,
     variables |-> <<"variables">>,
     streamProgress |-> <<"streamProgress">>,
     settings |-> <<"settings">>,
     outFile |-> <<"settings", "outFile">>,
     outDir |-> <<"settings", "outDir">>,
     workers |-> <<"settings", "workers">>,
     logProgress |-> <<"settings", "logProgress">>,
     viteBasePort |-> <<"settings", "viteBasePort">>,
     projectSettings |-> <<"settings", "projectSettings">>]

\* The name an error carries for a path: its property names joined by dots.
FieldName(f) == Join(CheckedFields[f], ".")

\* The inputs of each field that the rule of the field accepts.
Accepted ==
    [callbackUrl |->
         {Str("http://example.com/callback"), Str("https://example.com/callback")},
     variables |-> {Object([key |-> Str("value"), num |-> Number(42)])},
     streamProgress |-> {Bool(TRUE)},
     outFile |-> {Str("video.mp4"), Str("video.webm"), Str("video.mov")},
     outDir |-> {Str("./output")},
     workers |-> {Number(1), Number(32)},
     logProgress |-> {Bool(FALSE)},
     viteBasePort |-> {Number(9000)}]

\* A field is invalid when it is present and not accepted; settings and
\* projectSettings are invalid when present and not an object.
Invalid(body, f) ==
    LET v == At(body, CheckedFields[f])
    IN  /\ ~IsUndefined(v)
        /\ IF f \in {"settings", "projectSettings"} THEN v.type # "object"
           ELSE v \notin Accepted[f]

EntriesFor(errors, field) == {i \in 1..Len(errors) : errors[i].field = field}

Validated == Has(validation.result)

\* C25: validateRenderRequest returns valid = true exactly when its errors
\* list is empty; a null or non-object body yields exactly one error, on
\* field 'body'; for an object body every invalid field among callbackUrl,
\* variables, streamProgress and the settings fields has its own error entry,
\* whatever the other fields are, and a field that is not invalid has none.
C25_CollectsEveryViolation ==
    Validated =>
        LET body == validation.body
            result == Val(validation.result)
        IN  /\ result.valid <=> result.errors = <<>>
            /\ IF body.type \notin {"object", "array"}
               THEN /\ Len(result.errors) = 1
                    /\ result.errors[1].field = "body"
               ELSE \A f \in DOMAIN CheckedFields :
                        Cardinality(EntriesFor(result.errors, FieldName(f)))
                            = IF Invalid(body, f) THEN 1 ELSE 0

\* The request of the test that collects multiple errors: five invalid
\* fields, five entries, in the order of the checks.
C25_Witness ==
    /\ Validated
    /\ validation.body = BodyOf(Number(123), Null, Str("yes"), TwoBadSettings)
    /\ ~Val(validation.result).valid
    /\ [i \in 1..Len(Val(validation.result).errors) |->
            Val(validation.result).errors[i].field]
           = <<"callbackUrl", "variables", "streamProgress", "settings.outFile",
               "settings.workers">>

====
